---- MODULE Spec2Model ----
(***************************************************************************)
(* A model of the ndvek N-dimensional array engine (package ndvek):        *)
(* construction, shape algebra, broadcast index mapping, the arithmetic    *)
(* dispatcher and its dtype promotion.                                     *)
(*                                                                         *)
(* Go slices are references: an array object holds a pointer to a buffer,  *)
(* so the model keeps a heap of array objects and a heap of buffers.       *)
(* Sequences are 1-based here and 0-based in Go: Go's s[k] is s[k + 1].     *)
(***************************************************************************)
EXTENDS Integers, Sequences, FiniteSets, TLC

VARIABLES
    heap,     \* the NdArray objects allocated so far: [shape, data, dtype],
              \* data being the index in bufs of the slice the array points to
    bufs,     \* the slices allocated so far: [ty, el], ty the element type
    call,     \* the last call of a public operation and what it returned
    pre,      \* heap and bufs as they were when the last call was made
    sh1,      \* broadcastShapes: first argument
    sh2,      \* broadcastShapes: second argument
    bs        \* broadcastShapes: what the last call returned

vars == <<heap, bufs, call, pre, sh1, sh2, bs>>

--------------------------------------------------------------------------
(* Bounds of the model *)

\* largest rank of the enumerated shapes handed to broadcastShapes
SMaxRank == 2
\* largest dimension of the enumerated shapes handed to broadcastShapes
SMaxDim == 3
\* fractional bits kept by the model's float32 and float64
F32Frac == 1
F64Frac == 2
\* binary exponent of the largest finite float32 and float64 of the model
F32MaxExp == 5
F64MaxExp == 6
\* largest dimension of the enumerated operand shapes of the arithmetic
AMaxDim == 2
\* calls made in one behaviour of the library
MaxCalls == 3
\* calls of NewNdArray in one behaviour of SpecNew, and the longest data
NCalls == 2
NMaxLen == 6
\* largest dimension of the shapes handed to the library
FMaxDim == 2
\* calls in one behaviour of SpecLogic
LMaxCalls == 2
\* calls in one behaviour of SpecInplace
IMaxCalls == 2
\* calls of Reshape in one behaviour of SpecReshape, and the largest
\* dimension of its shapes
RMaxCalls == 2
RMaxDim == 2

--------------------------------------------------------------------------
(* Small helpers *)

Max(x, y) == IF x > y THEN x ELSE y

\* all sequences over S of length 0..n
SeqsUpTo(S, n) == UNION { [1..k -> S] : k \in 0..n }

--------------------------------------------------------------------------
(* Floating point.                                                         *)
(* A float is modelled in fixed point: a float32 k stands for k / F32One   *)
(* and a float64 v for v / F64One, so float64 is strictly finer than       *)
(* float32 and every float32 is a float64. Results are rounded to nearest  *)
(* (ties to even); beyond the largest finite value they are infinite.      *)
(* Infinities and NaN are the integers PInf, NInf, NaN outside the finite  *)
(* range. The sign of a zero is not modelled.                              *)

RECURSIVE Pow2(_)
Pow2(n) == IF n = 0 THEN 1 ELSE 2 * Pow2(n - 1)

F32One == Pow2(F32Frac)
F64One == Pow2(F64Frac)

One(ty) == IF ty = "f32" THEN F32One ELSE F64One

\* largest finite value of each type, in its own unit
Limit(ty) ==
    IF ty = "f32" THEN Pow2(F32MaxExp) * F32One ELSE Pow2(F64MaxExp) * F64One

PInf == Limit("f64") + 1
NInf == 0 - PInf
NaN  == PInf + 1

IsNaN(x) == x = NaN
IsInf(x) == x = PInf \/ x = NInf
IsFin(x) == ~IsNaN(x) /\ ~IsInf(x)

AbsInt(n) == IF n < 0 THEN 0 - n ELSE n
Sign(n) == IF n < 0 THEN 0 - 1 ELSE IF n > 0 THEN 1 ELSE 0

\* n / d rounded to the nearest integer, ties to even (d # 0)
RoundDiv(n, d) ==
    LET an == AbsInt(n)
        ad == AbsInt(d)
        q  == an \div ad
        r  == an % ad
        up == IF 2 * r > ad \/ (2 * r = ad /\ q % 2 = 1) THEN 1 ELSE 0
    IN  Sign(n) * Sign(d) * (q + up)

\* a finite result, or the infinity it overflows to
Fin(ty, v) ==
    IF v > Limit(ty) THEN PInf ELSE IF v < 0 - Limit(ty) THEN NInf ELSE v

fNeg(x) == IF IsNaN(x) THEN NaN ELSE 0 - x

fAdd(ty, x, y) ==
    IF IsNaN(x) \/ IsNaN(y) THEN NaN
    ELSE IF IsInf(x) /\ IsInf(y) THEN (IF x = y THEN x ELSE NaN)
    ELSE IF IsInf(x) THEN x
    ELSE IF IsInf(y) THEN y
    ELSE Fin(ty, x + y)

fSub(ty, x, y) == fAdd(ty, x, fNeg(y))

fMul(ty, x, y) ==
    IF IsNaN(x) \/ IsNaN(y) THEN NaN
    ELSE IF IsInf(x) \/ IsInf(y)
         THEN (IF x = 0 \/ y = 0 THEN NaN
               ELSE IF Sign(x) * Sign(y) > 0 THEN PInf ELSE NInf)
    ELSE Fin(ty, RoundDiv(x * y, One(ty)))

fDiv(ty, x, y) ==
    IF IsNaN(x) \/ IsNaN(y) THEN NaN
    ELSE IF IsInf(x) /\ IsInf(y) THEN NaN
    ELSE IF IsInf(x) THEN (IF y < 0 THEN fNeg(x) ELSE x)
    ELSE IF IsInf(y) THEN 0
    ELSE IF y = 0 THEN (IF x = 0 THEN NaN ELSE IF x > 0 THEN PInf ELSE NInf)
    ELSE Fin(ty, RoundDiv(x * One(ty), y))

\* float64(v) of a float32 v: exact
Widen(k) == IF IsFin(k) THEN k * (F64One \div F32One) ELSE k

\* float32(x) of a float64 x: rounded, infinite beyond the float32 range
Narrow(v) == IF IsFin(v) THEN Fin("f32", RoundDiv(v * F32One, F64One)) ELSE v

\* the kernels of vek (float64) and vek32 (float32), one element
Kernel(ty, op, x, y) ==
    CASE op = "Add" -> fAdd(ty, x, y)
      [] op = "Sub" -> fSub(ty, x, y)
      [] op = "Mul" -> fMul(ty, x, y)
      [] op = "Div" -> fDiv(ty, x, y)

\* vek.Add, vek.Sub, vek.Mul, vek.Div (and vek32's): a new slice
vekBinary(ty, op, x, y) == [k \in 1..Len(x) |-> Kernel(ty, op, x[k], y[k])]

\* vek.AddNumber, vek.SubNumber, vek.MulNumber, vek.DivNumber: a new slice
vekNumber(ty, op, x, c) == [k \in 1..Len(x) |-> Kernel(ty, op, x[k], c)]

\* vek.Inv: a new slice of the reciprocals
vekInv(ty, x) == [k \in 1..Len(x) |-> fDiv(ty, One(ty), x[k])]

fAbs(x) == IF IsNaN(x) THEN NaN ELSE AbsInt(x)

\* the square root rounded to the nearest value; NaN below zero
fSqrt(ty, x) ==
    IF IsNaN(x) \/ x < 0 THEN NaN
    ELSE IF IsInf(x) THEN x
    ELSE LET n == x * One(ty)
             r == CHOOSE q \in 0..Max(x, One(ty)) : q * q <= n /\ n < (q + 1) * (q + 1)
         IN  IF n - r * r > r THEN r + 1 ELSE r

\* to the nearest whole number, halves away from zero
fRound(ty, x) ==
    IF ~IsFin(x) THEN x
    ELSE Sign(x) * One(ty) * ((AbsInt(x) + One(ty) \div 2) \div One(ty))

fFloor(ty, x) == IF ~IsFin(x) THEN x ELSE One(ty) * (x \div One(ty))

fCeil(ty, x) == IF ~IsFin(x) THEN x ELSE 0 - (One(ty) * ((0 - x) \div One(ty)))

\* the running sums (op "Add") or products (op "Mul") of x
RECURSIVE Scan(_, _, _)
Scan(ty, op, x) ==
    IF Len(x) <= 1 THEN x
    ELSE LET n    == Len(x)
             init == Scan(ty, op, SubSeq(x, 1, n - 1))
         IN  Append(init, Kernel(ty, op, init[n - 1], x[n]))

\* vek.Abs, Neg, Sqrt, Round, Floor, Ceil, CumSum, CumProd (and vek32's)
vekUnary(ty, op, x) ==
    CASE op = "Abs"     -> [k \in 1..Len(x) |-> fAbs(x[k])]
      [] op = "Neg"     -> [k \in 1..Len(x) |-> fNeg(x[k])]
      [] op = "Sqrt"    -> [k \in 1..Len(x) |-> fSqrt(ty, x[k])]
      [] op = "Round"   -> [k \in 1..Len(x) |-> fRound(ty, x[k])]
      [] op = "Floor"   -> [k \in 1..Len(x) |-> fFloor(ty, x[k])]
      [] op = "Ceil"    -> [k \in 1..Len(x) |-> fCeil(ty, x[k])]
      [] op = "CumSum"  -> Scan(ty, "Add", x)
      [] op = "CumProd" -> Scan(ty, "Mul", x)

\* a comparison of two floats: false whenever one of them is NaN, except
\* for Neq, which is then true
Compare(op, x, y) ==
    LET nan == IsNaN(x) \/ IsNaN(y)
    IN  CASE op = "Eq"  -> ~nan /\ x = y
          [] op = "Neq" -> nan \/ x # y
          [] op = "Lt"  -> ~nan /\ x < y
          [] op = "Lte" -> ~nan /\ x <= y
          [] op = "Gt"  -> ~nan /\ x > y
          [] op = "Gte" -> ~nan /\ x >= y

BoolEl(p) == IF p THEN 1 ELSE 0

\* (mutant) every comparison is the strict less-than
vekCompareAsLt(op, x, y) == [k \in 1..Len(x) |-> BoolEl(Compare("Lt", x[k], y[k]))]

\* vek.Eq_Into, Neq_Into, Lt_Into, Lte_Into, Gt_Into, Gte_Into
vekCompare(op, x, y) == [k \in 1..Len(x) |-> BoolEl(Compare(op, x[k], y[k]))]

\* vek.And_Into, Or_Into, Xor_Into on bool slices
vekLogical(op, x, y) ==
    [k \in 1..Len(x) |->
        CASE op = "And" -> BoolEl(x[k] = 1 /\ y[k] = 1)
          [] op = "Or"  -> BoolEl(x[k] = 1 \/ y[k] = 1)
          [] op = "Xor" -> BoolEl(x[k] # y[k])]

--------------------------------------------------------------------------
(* Shape algebra: broadcastShapes *)

\* The dimension the loop reads at step i (counted from the right), or 1
\* when the shape has run out.
DimAt(shape, i) ==
    IF i < Len(shape) THEN shape[Len(shape) - i] ELSE 1

\* (mutant) the rule that a dimension of 1 stretches is forgotten
DimsClashStrict(dim1, dim2) == dim1 # dim2

\* (mutant) only dimensions above 1 can clash
DimsClashPositive(dim1, dim2) == dim1 > 1 /\ dim2 > 1 /\ dim1 # dim2

\* The loop's incompatibility test.
DimsClash(dim1, dim2) == dim1 # 1 /\ dim2 # 1 /\ dim1 # dim2

\* (mutant) the first shape's dimension always wins
BroadcastDimFirst(dim1, dim2) == dim1

\* (mutant) the comparison is turned around
BroadcastDimMin(dim1, dim2) == IF dim1 < dim2 THEN dim1 ELSE dim2

\* The dimension stored in the broadcasted shape.
BroadcastDim(dim1, dim2) == IF dim1 > dim2 THEN dim1 ELSE dim2

\* The loop of broadcastShapes from step i on; acc is broadcastedShape.
RECURSIVE BroadcastLoop(_, _, _, _)
BroadcastLoop(shape1, shape2, i, acc) ==
    LET maxLen == Len(acc)
        dim1   == DimAt(shape1, i)
        dim2   == DimAt(shape2, i)
    IN  IF i >= maxLen THEN [st |-> "ok", shape |-> acc]
        ELSE IF DimsClash(dim1, dim2) THEN [st |-> "err", shape |-> <<>>]
        ELSE BroadcastLoop(shape1, shape2, i + 1,
                           [acc EXCEPT ![maxLen - i] = BroadcastDim(dim1, dim2)])

\* (mutant) the broadcasted shape has the rank of the first shape
broadcastShapesFirstRank(shape1, shape2) ==
    BroadcastLoop(shape1, shape2, 0, [k \in 1..Len(shape1) |-> 0])

broadcastShapes(shape1, shape2) ==
    LET maxLen == IF Len(shape2) > Len(shape1) THEN Len(shape2) ELSE Len(shape1)
    IN  BroadcastLoop(shape1, shape2, 0, [k \in 1..maxLen |-> 0])

--------------------------------------------------------------------------
(* Arrays.                                                                 *)
(* The operations below are written over the value of an array: its shape, *)
(* its dtype tag, and the element type ty and elements el of the slice its *)
(* Data field points to. A []bool is kept as 0 (false) and 1 (true).       *)
(* What an operation returns is a record: st is "ok" (an array, or nil     *)
(* error), "err" (an error value, no array) or "panic" (the goroutine      *)
(* panicked), and why names the error.                                     *)

Ok(shape, dtype, ty, el) ==
    [st |-> "ok", why |-> "", shape |-> shape, dtype |-> dtype, ty |-> ty,
     el |-> el]

Err(why) ==
    [st |-> "err", why |-> why, shape |-> <<>>, dtype |-> "", ty |-> "",
     el |-> <<>>]

Panic(why) ==
    [st |-> "panic", why |-> why, shape |-> <<>>, dtype |-> "", ty |-> "",
     el |-> <<>>]

RECURSIVE ProdInt(_)
ProdInt(x) == IF x = <<>> THEN 1 ELSE Head(x) * ProdInt(Tail(x))

shapesEqual(a, b) ==
    /\ Len(a) = Len(b)
    /\ \A i \in 1..Len(a) : a[i] = b[i]

\* (mutant) the float32 elements are handed on as they are stored
dataAsFloat64Raw(a) ==
    IF a.ty \in {"f64", "f32"} THEN [st |-> "ok", el |-> a.el]
    ELSE [st |-> "panic", el |-> <<>>]

\* the type assertion a.Data.([]float64) or a.Data.([]float32) panics when
\* the slice is of another type
dataAsFloat64(a) ==
    IF a.dtype = "Float64"
    THEN (IF a.ty = "f64" THEN [st |-> "ok", el |-> a.el]
          ELSE [st |-> "panic", el |-> <<>>])
    ELSE (IF a.ty = "f32"
          THEN [st |-> "ok", el |-> [k \in 1..Len(a.el) |-> Widen(a.el[k])]]
          ELSE [st |-> "panic", el |-> <<>>])

\* The loop of Get over the coordinates from position i on: the offset, or
\* -1 for "index out of bounds".
RECURSIVE GetOffset(_, _, _, _)
GetOffset(shape, index, i, offset) ==
    IF i > Len(index) THEN offset
    ELSE IF index[i] < 0 \/ index[i] >= shape[i] THEN 0 - 1
    ELSE GetOffset(shape, index, i + 1, offset * shape[i] + index[i])

Get(a, index) ==
    IF Len(index) # Len(a.shape) THEN [st |-> "err", v |-> 0]
    ELSE LET offset == GetOffset(a.shape, index, 1, 0)
         IN  IF offset < 0 THEN [st |-> "err", v |-> 0]
             ELSE IF a.dtype = "Float64"
             THEN (IF a.ty = "f64" /\ offset < Len(a.el)
                   THEN [st |-> "ok", v |-> a.el[offset + 1]]
                   ELSE [st |-> "panic", v |-> 0])
             ELSE (IF a.ty = "f32" /\ offset < Len(a.el)
                   THEN [st |-> "ok", v |-> Widen(a.el[offset + 1])]
                   ELSE [st |-> "panic", v |-> 0])

--------------------------------------------------------------------------
(* Broadcast index mapper: broadcastIndex *)

\* (mutant) the stride grows by the broadcast dimension
RECURSIVE BroadcastIndexLoopResultStride(_, _, _, _, _, _)
BroadcastIndexLoopResultStride(shape, broadcastShape, i, index, originalIndex, stride) ==
    IF i < 0 THEN [st |-> "ok", v |-> originalIndex]
    ELSE
    LET broadcastDim == broadcastShape[i + 1]
        j            == i - Len(broadcastShape) + Len(shape)
        shapeDim     == IF j >= 0 THEN shape[j + 1] ELSE 1
    IN  IF broadcastDim = 0 THEN [st |-> "panic", v |-> 0]
        ELSE
        LET coord        == index % broadcastDim
            currentCoord == IF shapeDim # broadcastDim /\ shapeDim = 1
                            THEN 0 ELSE coord
        IN  BroadcastIndexLoopResultStride(shape, broadcastShape, i - 1,
                               index \div broadcastDim,
                               originalIndex + currentCoord * stride,
                               stride * broadcastDim)

\* The loop of broadcastIndex at dimension i (0-based, from the last to the
\* first). A zero broadcast dimension makes index % broadcastDim panic.
RECURSIVE BroadcastIndexLoop(_, _, _, _, _, _)
BroadcastIndexLoop(shape, broadcastShape, i, index, originalIndex, stride) ==
    IF i < 0 THEN [st |-> "ok", v |-> originalIndex]
    ELSE
    LET broadcastDim == broadcastShape[i + 1]
        j            == i - Len(broadcastShape) + Len(shape)
        shapeDim     == IF j >= 0 THEN shape[j + 1] ELSE 1
    IN  IF broadcastDim = 0 THEN [st |-> "panic", v |-> 0]
        ELSE
        LET coord        == index % broadcastDim
            currentCoord == IF shapeDim # broadcastDim /\ shapeDim = 1
                            THEN 0 ELSE coord
        IN  BroadcastIndexLoop(shape, broadcastShape, i - 1,
                               index \div broadcastDim,
                               originalIndex + currentCoord * stride,
                               stride * shapeDim)

\* the text of broadcastIndex's error
RankMismatch == "original shape cannot be larger than broadcast shape"

broadcastIndex(shape, broadcastShape, index) ==
    IF Len(shape) > Len(broadcastShape) THEN [st |-> "err", v |-> 0]
    ELSE BroadcastIndexLoop(shape, broadcastShape, Len(broadcastShape) - 1,
                            index, 0, 1)

--------------------------------------------------------------------------
(* The arithmetic dispatcher: ApplyOp, Add, Subtract, Multiply, Divide *)

\* One round of ApplyOp's loop, for the flat result index i (0-based): the
\* two source offsets, read from aData and bData.
ApplyOpAt(a, b, bShape, aData, bData, op, i) ==
    LET aIndex == broadcastIndex(a.shape, bShape, i)
        bIndex == broadcastIndex(b.shape, bShape, i)
        Stop(x) == [st  |-> "panic", v |-> 0,
                    why |-> IF x.st = "err" THEN RankMismatch
                            ELSE "integer divide by zero"]
    IN  IF aIndex.st # "ok" THEN Stop(aIndex)
        ELSE IF bIndex.st # "ok" THEN Stop(bIndex)
        ELSE IF aIndex.v < 0 \/ aIndex.v >= Len(aData)
                \/ bIndex.v < 0 \/ bIndex.v >= Len(bData)
        THEN [st |-> "panic", v |-> 0, why |-> "index out of range"]
        ELSE [st |-> "ok", why |-> "",
              v  |-> Kernel("f64", op, aData[aIndex.v + 1], bData[bIndex.v + 1])]

\* ApplyOp(a, b, op); the loop stops at the first round that panics
ApplyOp(a, b, op) ==
    LET bs0 == broadcastShapes(a.shape, b.shape)
    IN  IF bs0.st = "err" THEN Err("broadcast")
        ELSE
        LET bShape == bs0.shape
            sizeOf == ProdInt(bShape)
            aData  == dataAsFloat64(a)
            bData  == dataAsFloat64(b)
        IN  IF sizeOf < 0 THEN Panic("makeslice")
            ELSE IF aData.st = "panic" \/ bData.st = "panic"
            THEN Panic("type assertion")
            ELSE
            LET cell == [k \in 1..sizeOf |->
                            ApplyOpAt(a, b, bShape, aData.el, bData.el, op, k - 1)]
                stopped == { k \in 1..sizeOf : cell[k].st = "panic" }
            IN  IF stopped # {}
                THEN Panic(cell[CHOOSE k \in stopped :
                                    \A m \in stopped : k <= m].why)
                ELSE Ok(bShape, "Float64", "f64", [k \in 1..sizeOf |-> cell[k].v])

\* The value that "bVal, _ := b.Get([]int{0})" leaves in bVal: Get's error
\* is dropped, and the value returned with an error is 0.
ScalarOf(b) ==
    LET g == Get(b, <<0>>)
    IN  [st |-> IF g.st = "panic" THEN "panic" ELSE "ok",
         v  |-> IF g.st = "ok" THEN g.v ELSE 0]

\* (mutant) equal shapes: always through float64
EqualShapePathWide(op, a, b) ==
    LET x == dataAsFloat64(a)
        y == dataAsFloat64(b)
    IN  IF x.st = "panic" \/ y.st = "panic" THEN Panic("type assertion")
        ELSE IF Len(x.el) # Len(y.el) THEN Panic("slices must be of equal length")
        ELSE Ok(a.shape, "Float64", "f64", vekBinary("f64", op, x.el, y.el))

\* equal shapes: the vek kernel on the two buffers
EqualShapePath(op, a, b) ==
    IF a.dtype = "Float32" /\ b.dtype = "Float32"
    THEN (IF a.ty # "f32" \/ b.ty # "f32" THEN Panic("type assertion")
          ELSE IF Len(a.el) # Len(b.el) THEN Panic("slices must be of equal length")
          ELSE Ok(a.shape, "Float32", "f32", vekBinary("f32", op, a.el, b.el)))
    ELSE LET x == dataAsFloat64(a)
             y == dataAsFloat64(b)
         IN  IF x.st = "panic" \/ y.st = "panic" THEN Panic("type assertion")
             ELSE IF Len(x.el) # Len(y.el) THEN Panic("slices must be of equal length")
             ELSE Ok(a.shape, "Float64", "f64", vekBinary("f64", op, x.el, y.el))

\* ProdInt(b.shape) == 1: b is the scalar, the result has a's shape
ScalarRightPath(op, a, b) ==
    LET bVal == ScalarOf(b)
    IN  IF bVal.st = "panic" THEN Panic("type assertion")
        ELSE IF a.dtype = "Float32" /\ b.dtype = "Float32"
        THEN (IF a.ty # "f32" THEN Panic("type assertion")
              ELSE Ok(a.shape, "Float32", "f32",
                      vekNumber("f32", op, a.el, Narrow(bVal.v))))
        ELSE LET x == dataAsFloat64(a)
             IN  IF x.st = "panic" THEN Panic("type assertion")
                 ELSE Ok(a.shape, "Float64", "f64",
                         vekNumber("f64", op, x.el, bVal.v))

\* The kernels of the path where a is the scalar: AddNumber and MulNumber
\* as they are, a - b as (b - a) * -1 and a / b as (1 / b) * a.
ScalarLeftKernel(ty, op, x, c) ==
    CASE op = "Add" -> vekNumber(ty, "Add", x, c)
      [] op = "Sub" -> vekNumber(ty, "Mul", vekNumber(ty, "Sub", x, c), 0 - One(ty))
      [] op = "Mul" -> vekNumber(ty, "Mul", x, c)
      [] op = "Div" -> vekNumber(ty, "Mul", vekInv(ty, x), c)

\* ProdInt(a.shape) == 1: a is the scalar, the result has b's shape
ScalarLeftPath(op, a, b) ==
    LET aVal == ScalarOf(a)
    IN  IF aVal.st = "panic" THEN Panic("type assertion")
        ELSE IF a.dtype = "Float32" /\ b.dtype = "Float32"
        THEN (IF b.ty # "f32" THEN Panic("type assertion")
              ELSE Ok(b.shape, "Float32", "f32",
                      ScalarLeftKernel("f32", op, b.el, Narrow(aVal.v))))
        ELSE LET y == dataAsFloat64(b)
             IN  IF y.st = "panic" THEN Panic("type assertion")
                 ELSE Ok(b.shape, "Float64", "f64",
                         ScalarLeftKernel("f64", op, y.el, aVal.v))

\* Add, Subtract, Multiply and Divide share one dispatch; op names the kernel.
Arith(op, a, b) ==
    IF shapesEqual(a.shape, b.shape) THEN EqualShapePath(op, a, b)
    ELSE IF ProdInt(b.shape) = 1 THEN ScalarRightPath(op, a, b)
    ELSE IF ProdInt(a.shape) = 1 THEN ScalarLeftPath(op, a, b)
    ELSE ApplyOp(a, b, op)

Add(a, b)      == Arith("Add", a, b)
Subtract(a, b) == Arith("Sub", a, b)
Multiply(a, b) == Arith("Mul", a, b)
Divide(a, b)   == Arith("Div", a, b)

--------------------------------------------------------------------------
(* Construction *)

\* (mutant) a []bool of any length is taken
NewNdArrayAnyBools(shape, ty, el) ==
    IF ty \notin {"f64", "f32", "bool"} THEN Err("unsupported data type")
    ELSE IF ty # "bool" /\ ProdInt(shape) # Len(el)
    THEN Err("data length does not match shape dimensions")
    ELSE Ok(shape, CASE ty = "f64" -> "Float64"
                     [] ty = "f32" -> "Float32"
                     [] ty = "bool" -> "Bool", ty, el)

\* NewNdArray(shape, data): data is a slice of type ty holding el. The
\* array returned keeps the slice it was given.
NewNdArray(shape, ty, el) ==
    LET size == ProdInt(shape)
    IN  IF ty \notin {"f64", "f32", "bool"} THEN Err("unsupported data type")
        ELSE IF size # Len(el) THEN Err("data length does not match shape dimensions")
        ELSE Ok(shape, CASE ty = "f64" -> "Float64"
                         [] ty = "f32" -> "Float32"
                         [] ty = "bool" -> "Bool", ty, el)

\* Zeros(shape): the struct literal leaves dtype at its zero value, Float64
Zeros(shape) ==
    LET size == ProdInt(shape)
    IN  IF size < 0 THEN Panic("makeslice")
        ELSE Ok(shape, "Float64", "f64", [k \in 1..size |-> 0])

--------------------------------------------------------------------------
(* Scalar and unary operations, returning a new array *)

\* AddScalar, SubScalar, MulScalar, DivScalar: b is a float64 value;
\* SubScalar adds the negated number
ScalarOp(op, a, b) ==
    LET kop == IF op = "SubScalar" THEN "Add"
               ELSE CASE op = "AddScalar" -> "Add" [] op = "MulScalar" -> "Mul"
                      [] op = "DivScalar" -> "Div"
    IN  IF a.dtype = "Float32"
        THEN (IF a.ty # "f32" THEN Panic("type assertion")
              ELSE Ok(a.shape, "Float32", "f32",
                      vekNumber("f32", kop, a.el,
                                IF op = "SubScalar" THEN fNeg(Narrow(b)) ELSE Narrow(b))))
        ELSE LET x == dataAsFloat64(a)
             IN  IF x.st = "panic" THEN Panic("type assertion")
                 ELSE Ok(a.shape, "Float64", "f64",
                         vekNumber("f64", kop, x.el,
                                   IF op = "SubScalar" THEN fNeg(b) ELSE b))

\* Abs, Neg, Sqrt, CumSum, CumProd, Round, Floor, Ceil
UnaryOp(op, a) ==
    IF a.dtype = "Float32"
    THEN (IF a.ty # "f32" THEN Panic("type assertion")
          ELSE Ok(a.shape, "Float32", "f32", vekUnary("f32", op, a.el)))
    ELSE LET x == dataAsFloat64(a)
         IN  IF x.st = "panic" THEN Panic("type assertion")
             ELSE Ok(a.shape, "Float64", "f64", vekUnary("f64", op, x.el))

--------------------------------------------------------------------------
(* Comparisons and logical operations *)

\* (mutant) a Bool operand is compared as the numbers 0 and 1
CompareOpCoerce(op, a, b) ==
    IF ~shapesEqual(a.shape, b.shape)
    THEN Err("broadcasting not yet supported for boolean ops")
    ELSE LET num(x) == [k \in 1..Len(x.el) |->
                          IF x.ty = "bool" THEN x.el[k] * F64One
                          ELSE IF x.ty = "f32" THEN Widen(x.el[k]) ELSE x.el[k]]
         IN  Ok(a.shape, "Bool", "bool", vekCompare(op, num(a), num(b)))

\* Eq, Neq (which compare two Bool arrays too) and Lt, Lte, Gt, Gte
CompareOp(op, a, b) ==
    IF ~shapesEqual(a.shape, b.shape) THEN Err("broadcasting not yet supported for boolean ops")
    ELSE IF ProdInt(a.shape) < 0 THEN Panic("makeslice")
    ELSE IF a.dtype = "Float64" /\ b.dtype = "Float64"
    THEN (IF a.ty # "f64" \/ b.ty # "f64" THEN Panic("type assertion")
          ELSE Ok(a.shape, "Bool", "bool", vekCompare(op, a.el, b.el)))
    ELSE IF a.dtype = "Float32" /\ b.dtype = "Float32"
    THEN (IF a.ty # "f32" \/ b.ty # "f32" THEN Panic("type assertion")
          ELSE Ok(a.shape, "Bool", "bool", vekCompare(op, a.el, b.el)))
    ELSE IF op \in {"Eq", "Neq"} /\ a.dtype = "Bool" /\ b.dtype = "Bool"
    THEN (IF a.ty # "bool" \/ b.ty # "bool" THEN Panic("type assertion")
          ELSE Ok(a.shape, "Bool", "bool", vekCompare(op, a.el, b.el)))
    ELSE IF a.dtype # "Bool" /\ b.dtype # "Bool"
    THEN LET x == dataAsFloat64(a)
             y == dataAsFloat64(b)
         IN  IF x.st = "panic" \/ y.st = "panic" THEN Panic("type assertion")
             ELSE Ok(a.shape, "Bool", "bool", vekCompare(op, x.el, y.el))
    ELSE Err("cannot compare boolean with numeric type")

\* (mutant) the dtypes are tested before the shapes
LogicalOpDtypeFirst(op, a, b) ==
    IF a.dtype # "Bool" \/ b.dtype # "Bool"
    THEN Err("logical operations require boolean arrays")
    ELSE IF ~shapesEqual(a.shape, b.shape)
    THEN Err("broadcasting not yet supported for boolean ops")
    ELSE Ok(a.shape, "Bool", "bool", vekLogical(op, a.el, b.el))

\* And, Or, Xor
LogicalOp(op, a, b) ==
    IF ~shapesEqual(a.shape, b.shape) THEN Err("broadcasting not yet supported for boolean ops")
    ELSE IF a.dtype # "Bool" \/ b.dtype # "Bool"
    THEN Err("logical operations require boolean arrays")
    ELSE IF ProdInt(a.shape) < 0 THEN Panic("makeslice")
    ELSE IF a.ty # "bool" \/ b.ty # "bool" THEN Panic("type assertion")
    ELSE Ok(a.shape, "Bool", "bool", vekLogical(op, a.el, b.el))

Not(a) ==
    IF a.dtype # "Bool" THEN Panic("logical operations require boolean arrays")
    ELSE IF ProdInt(a.shape) < 0 THEN Panic("makeslice")
    ELSE IF a.ty # "bool" THEN Panic("type assertion")
    ELSE Ok(a.shape, "Bool", "bool", [k \in 1..Len(a.el) |-> 1 - a.el[k]])

\* Any and All return a bool, kept as the only element of el
AnyAll(op, a) ==
    IF a.dtype # "Bool" THEN Panic("logical operations require boolean arrays")
    ELSE IF a.ty # "bool" THEN Panic("type assertion")
    ELSE Ok(<<>>, "Bool", "bool",
            << IF op = "Any" THEN BoolEl(\E k \in 1..Len(a.el) : a.el[k] = 1)
               ELSE BoolEl(\A k \in 1..Len(a.el) : a.el[k] = 1) >>)

--------------------------------------------------------------------------
(* Shape manipulation *)

\* InsertAxis(pos): the new shape; slicing and indexing outside 0..rank panic
InsertAxisShape(shape, pos) ==
    LET rank == Len(shape)
        p    == IF pos < 0 THEN pos + rank + 1 ELSE pos
    IN  IF p < 0 \/ p > rank THEN [st |-> "panic", shape |-> <<>>]
        ELSE [st |-> "ok",
              shape |-> SubSeq(shape, 1, p) \o <<1>> \o SubSeq(shape, p + 1, rank)]

\* InsertAxis hands x.Data itself to NewNdArray and panics on its error
InsertAxis(x, pos) ==
    LET sh == InsertAxisShape(x.shape, pos)
    IN  IF sh.st = "panic" THEN Panic("slice bounds out of range")
        ELSE LET y == NewNdArray(sh.shape, x.ty, x.el)
             IN  IF y.st = "err" THEN Panic(y.why) ELSE y

\* (mutant) any shape of the same rank is taken
ReshapeAcceptsRank(x, shape) == Len(shape) = Len(x.shape)

\* (mutant) a shape of the same product is taken only if its rank is no
\* larger
ReshapeAcceptsFlatter(x, shape) ==
    ProdInt(shape) = ProdInt(x.shape) /\ Len(shape) <= Len(x.shape)

\* Reshape(shape): whether x.shape is overwritten (and x returned) or nil
\* is returned
ReshapeAccepts(x, shape) == ProdInt(shape) = ProdInt(x.shape)

--------------------------------------------------------------------------
(* In-place operations: what is written into the receiver's slice *)

\* (mutant) every in-place operation adds
InplaceKernelAdd(op) == "Add"

InplaceKernel(op) ==
    CASE op = "Add_Inplace" -> "Add" [] op = "Subtract_Inplace" -> "Sub"
      [] op = "Multiply_Inplace" -> "Mul" [] op = "Divide_Inplace" -> "Div"
      [] op = "AddScalar_Inplace" -> "Add" [] op = "SubScalar_Inplace" -> "Sub"
      [] op = "MulScalar_Inplace" -> "Mul" [] op = "DivScalar_Inplace" -> "Div"
      [] op = "Abs_Inplace" -> "Abs" [] op = "Neg_Inplace" -> "Neg"
      [] op = "Sqrt_Inplace" -> "Sqrt" [] op = "Round_Inplace" -> "Round"
      [] op = "Floor_Inplace" -> "Floor" [] op = "Ceil_Inplace" -> "Ceil"
      [] op = "CumSum_Inplace" -> "CumSum" [] op = "CumProd_Inplace" -> "CumProd"

\* (mutant) the shapes are not compared: slices of equal length are
\* operated on whatever the shapes
BinaryInplaceAnyShape(op, a, b) ==
    IF Len(a.el) # Len(b.el) \/ a.ty \notin {"f64", "f32"} \/ a.ty # b.ty
    THEN Panic("slices must be of equal length")
    ELSE Ok(a.shape, a.dtype, a.ty, vekBinary(a.ty, InplaceKernel(op), a.el, b.el))

\* Add_Inplace, Subtract_Inplace, Multiply_Inplace, Divide_Inplace
BinaryInplace(op, a, b) ==
    IF ~shapesEqual(a.shape, b.shape)
    THEN Err("shapes must be equal for in-place operation")
    ELSE IF a.dtype = "Float32"
    THEN (IF b.dtype = "Float64"
          THEN Err("cannot operate on Float32 with Float64 in-place")
          ELSE IF a.ty # "f32" \/ b.ty # "f32" THEN Panic("type assertion")
          ELSE IF Len(a.el) # Len(b.el) THEN Panic("slices must be of equal length")
          ELSE Ok(a.shape, a.dtype, a.ty,
                  vekBinary("f32", InplaceKernel(op), a.el, b.el)))
    ELSE LET y == dataAsFloat64(b)
         IN  IF a.ty # "f64" \/ y.st = "panic" THEN Panic("type assertion")
             ELSE IF Len(a.el) # Len(y.el) THEN Panic("slices must be of equal length")
             ELSE Ok(a.shape, a.dtype, a.ty,
                     vekBinary("f64", InplaceKernel(op), a.el, y.el))

\* AddScalar_Inplace, SubScalar_Inplace, MulScalar_Inplace, DivScalar_Inplace
ScalarInplace(op, a, b) ==
    IF a.dtype = "Float32"
    THEN (IF a.ty # "f32" THEN Panic("type assertion")
          ELSE Ok(a.shape, a.dtype, a.ty,
                  vekNumber("f32", InplaceKernel(op), a.el, Narrow(b))))
    ELSE (IF a.ty # "f64" THEN Panic("type assertion")
          ELSE Ok(a.shape, a.dtype, a.ty,
                  vekNumber("f64", InplaceKernel(op), a.el, b)))

\* Abs_Inplace, Neg_Inplace, Sqrt_Inplace, Round_Inplace, Floor_Inplace,
\* Ceil_Inplace, CumSum_Inplace, CumProd_Inplace
UnaryInplace(op, a) ==
    IF a.dtype = "Float32"
    THEN (IF a.ty # "f32" THEN Panic("type assertion")
          ELSE Ok(a.shape, a.dtype, a.ty, vekUnary("f32", InplaceKernel(op), a.el)))
    ELSE (IF a.ty # "f64" THEN Panic("type assertion")
          ELSE Ok(a.shape, a.dtype, a.ty, vekUnary("f64", InplaceKernel(op), a.el)))

\* the functions handed to ApplyHadamardOp: func(float64) float64
HadamardFn(f, x) ==
    CASE f = "twice"  -> fMul("f64", x, 2 * F64One)
      [] f = "square" -> fMul("f64", x, x)

\* (mutant) the float32 elements are handed to op as they are stored
ApplyHadamardOpRaw(a, f) ==
    IF a.ty \notin {"f64", "f32"} THEN Panic("type assertion")
    ELSE Ok(a.shape, "Float64", "f64",
            [k \in 1..Len(a.el) |-> HadamardFn(f, a.el[k])])

\* ApplyHadamardOp(op): the elements stored afterwards, always float64; a
\* Float32 array gets a new slice, any other has its []float64 overwritten
ApplyHadamardOp(a, f) ==
    IF a.dtype = "Float32"
    THEN (IF a.ty # "f32" THEN Panic("type assertion")
          ELSE Ok(a.shape, "Float64", "f64",
                  [k \in 1..Len(a.el) |-> HadamardFn(f, Widen(a.el[k]))]))
    ELSE (IF a.ty # "f64" THEN Panic("type assertion")
          ELSE Ok(a.shape, a.dtype, "f64",
                  [k \in 1..Len(a.el) |-> HadamardFn(f, a.el[k])]))

--------------------------------------------------------------------------
(* The heap: array objects and the slices they point to *)

\* the value of array object i in heap h over the slices b
ValueIn(h, b, i) ==
    [shape |-> h[i].shape, dtype |-> h[i].dtype,
     ty |-> b[h[i].data].ty, el |-> b[h[i].data].el]

Value(i) == ValueIn(heap, bufs, i)

NoCallYet ==
    [op |-> "none", a |-> 0, b |-> 0, arg |-> <<>>, st |-> "none", why |-> "",
     res |-> 0, out |-> <<>>, n |-> 0]

\* the record of a call of op on the arrays i and j (0: none) with the
\* further argument arg, returning r; res is the array returned (0: none)
CallRecord(op, i, j, arg, r, res) ==
    [op |-> op, a |-> i, b |-> j, arg |-> arg, st |-> r.st, why |-> r.why,
     res |-> res, out |-> <<>>, n |-> call.n + 1]

Snapshot == [heap |-> heap, bufs |-> bufs]

\* a call returning r: when r is "ok", a new array with a slice of its own
ReturnFresh(op, i, j, arg, r) ==
    /\ pre' = Snapshot
    /\ IF r.st = "ok"
       THEN /\ bufs' = Append(bufs, [ty |-> r.ty, el |-> r.el])
            /\ heap' = Append(heap, [shape |-> r.shape, data |-> Len(bufs) + 1,
                                     dtype |-> r.dtype])
       ELSE UNCHANGED <<heap, bufs>>
    /\ call' = CallRecord(op, i, j, arg, r, IF r.st = "ok" THEN Len(heap) + 1 ELSE 0)

\* a call returning r: when r is "ok", a new array that points to the
\* slice of array i
ReturnSharing(op, i, arg, r) ==
    /\ pre' = Snapshot
    /\ IF r.st = "ok"
       THEN heap' = Append(heap, [shape |-> r.shape, data |-> heap[i].data,
                                  dtype |-> r.dtype])
       ELSE UNCHANGED heap
    /\ UNCHANGED bufs
    /\ call' = CallRecord(op, i, 0, arg, r, IF r.st = "ok" THEN Len(heap) + 1 ELSE 0)

\* a call on receiver i that, when r is "ok", overwrites the elements of
\* the slice i points to with r.el and returns no array
ReturnInplace(op, i, j, arg, r) ==
    /\ pre' = Snapshot
    /\ IF r.st = "ok"
       THEN bufs' = [bufs EXCEPT ![heap[i].data].el = r.el]
       ELSE UNCHANGED bufs
    /\ UNCHANGED heap
    /\ call' = CallRecord(op, i, j, arg, r, 0)

\* a call that only reads: r.el is the value returned
ReturnValue(op, i, arg, r) ==
    /\ pre' = Snapshot
    /\ UNCHANGED <<heap, bufs>>
    /\ call' = [CallRecord(op, i, 0, arg, r, 0) EXCEPT !.out = r.el]

--------------------------------------------------------------------------
(* Specification SpecShape: broadcastShapes applied to bounded shapes, and  *)
(* broadcastIndex applied to either shape, the broadcast shape and the     *)
(* flat indices of the latter, as ApplyOp's loop does.                     *)

\* the shapes of TestBroadcastShapes
TestShapes ==
    { <<2, 3>>, <<3>>, <<1, 3>>, <<4, 1, 3>>, <<3, 4, 5>>, <<4, 5>>, <<5>>,
      <<4, 3>> }

ShapeInputs == SeqsUpTo(0..SMaxDim, SMaxRank) \cup TestShapes

NoCall == [st |-> "none", shape |-> <<>>]

ShapeInit ==
    /\ heap = <<>> /\ bufs = <<>> /\ call = NoCallYet /\ pre = 0
    /\ sh1 \in ShapeInputs
    /\ sh2 \in ShapeInputs
    /\ bs = NoCall

CallBroadcastShapes ==
    /\ bs = NoCall
    /\ bs' = broadcastShapes(sh1, sh2)
    /\ UNCHANGED <<heap, bufs, call, pre, sh1, sh2>>

\* broadcastIndex(shape, broadcastShape, index), index below the product of
\* broadcastShape, which is the shape broadcastShapes returned or the
\* source shape itself
CallBroadcastIndex ==
    /\ bs.st = "ok" /\ call.op = "none"
    /\ \E shape \in {sh1, sh2} :
         \E broadcastShape \in {bs.shape, shape} :
           \E index \in 0..(ProdInt(broadcastShape) - 1) :
             LET r == broadcastIndex(shape, broadcastShape, index)
             IN  call' = [NoCallYet EXCEPT !.op = "broadcastIndex",
                                           !.arg = <<shape, broadcastShape, index>>,
                                           !.st = r.st, !.out = <<r.v>>,
                                           !.n = 1]
    /\ UNCHANGED <<heap, bufs, pre, sh1, sh2, bs>>

ShapeNext == CallBroadcastShapes \/ CallBroadcastIndex

SpecShape == ShapeInit /\ [][ShapeNext]_vars

--------------------------------------------------------------------------
(* Specification SpecArith: one arithmetic call on a pair of arrays *)

\* n elements base, base + 1, ... of type ty (for bool: their parity)
Ramp(ty, n, base) ==
    [k \in 1..n |-> IF ty = "bool" THEN (base + k - 1) % 2
                    ELSE (base + k - 1) * One(ty)]

DTypeOf(ty) ==
    CASE ty = "f64" -> "Float64" [] ty = "f32" -> "Float32" [] ty = "bool" -> "Bool"

\* the operand shapes of TestArithmeticOperations and of the spec's
\* scenarios, and two of rank 3 that stretch each other
ATestShapes == { <<2, 3>>, <<3>>, <<4, 3>>, <<2, 1, 2>>, <<1, 2, 1>> }

AShapes ==
    {<<>>} \cup { <<d>> : d \in 0..AMaxDim }
           \cup { <<d, e>> : d \in 0..AMaxDim, e \in 0..AMaxDim }
           \cup ATestShapes

\* first elements of the operands' data: -1, 0, 1, ... and 1, 2, 3, ...
ABases == {0 - 1, 1}

\* the arrays NewNdArray builds from these shapes and data
AOperands ==
    { [shape |-> sh, ty |-> ty, el |-> Ramp(ty, ProdInt(sh), base)] :
        sh \in AShapes, ty \in {"f64", "f32", "bool"}, base \in ABases }

ArithInit ==
    /\ \E x \in AOperands, y \in AOperands :
         /\ heap = << [shape |-> x.shape, data |-> 1, dtype |-> DTypeOf(x.ty)],
                      [shape |-> y.shape, data |-> 2, dtype |-> DTypeOf(y.ty)] >>
         /\ bufs = << [ty |-> x.ty, el |-> x.el], [ty |-> y.ty, el |-> y.el] >>
    /\ call = NoCallYet
    /\ pre = Snapshot
    /\ sh1 = <<>> /\ sh2 = <<>> /\ bs = NoCall

AddPair ==
    /\ call.op = "none"
    /\ ReturnFresh("Add", 1, 2, <<>>, Add(Value(1), Value(2)))
    /\ UNCHANGED <<sh1, sh2, bs>>

SubtractPair ==
    /\ call.op = "none"
    /\ ReturnFresh("Sub", 1, 2, <<>>, Subtract(Value(1), Value(2)))
    /\ UNCHANGED <<sh1, sh2, bs>>

MultiplyPair ==
    /\ call.op = "none"
    /\ ReturnFresh("Mul", 1, 2, <<>>, Multiply(Value(1), Value(2)))
    /\ UNCHANGED <<sh1, sh2, bs>>

DividePair ==
    /\ call.op = "none"
    /\ ReturnFresh("Div", 1, 2, <<>>, Divide(Value(1), Value(2)))
    /\ UNCHANGED <<sh1, sh2, bs>>

ArithNext == AddPair \/ SubtractPair \/ MultiplyPair \/ DividePair

SpecArith == ArithInit /\ [][ArithNext]_vars

--------------------------------------------------------------------------
(* Specification Spec: any MaxCalls calls of the public operations, each   *)
(* on arrays that earlier calls returned.                                  *)
(* Sum, Mean, Min, Max, Prod, Get, Shape, DType and Linspace return        *)
(* numbers and leave every array as it is; they are not part of it.        *)

Init ==
    /\ heap = <<>> /\ bufs = <<>>
    /\ call = NoCallYet
    /\ pre = Snapshot
    /\ sh1 = <<>> /\ sh2 = <<>> /\ bs = NoCall

Ids == 1..Len(heap)
CanCall == call.n < MaxCalls
ShapeFrame == UNCHANGED <<sh1, sh2, bs>>

\* the shapes, element types, data and numbers the calls are given
FShapes ==
    {<<>>} \cup { <<d>> : d \in 0..FMaxDim } \cup { <<1, FMaxDim>>, <<FMaxDim, 1>> }
FTypes == {"f64", "f32", "bool", "int"}
FData(ty, n) == Ramp(ty, n, 0 - 1)
FScalars == { 2 * F64One }
FPositions == (0 - 1)..FMaxDim
FFunctions == {"twice", "square"}

CallNewNdArray ==
    /\ CanCall
    /\ \E shape \in FShapes, ty \in FTypes : \E n \in {ProdInt(shape), 1} :
         ReturnFresh("NewNdArray", 0, 0,
                     [shape |-> shape, ty |-> ty, el |-> FData(ty, n)],
                     NewNdArray(shape, ty, FData(ty, n)))
    /\ ShapeFrame

CallZeros ==
    /\ CanCall
    /\ \E shape \in FShapes : ReturnFresh("Zeros", 0, 0, shape, Zeros(shape))
    /\ ShapeFrame

ArithCall(op) ==
    /\ CanCall
    /\ \E i \in Ids, j \in Ids :
         ReturnFresh(op, i, j, <<>>, Arith(op, Value(i), Value(j)))
    /\ ShapeFrame

CallAdd      == ArithCall("Add")
CallSubtract == ArithCall("Sub")
CallMultiply == ArithCall("Mul")
CallDivide   == ArithCall("Div")

CallApplyOp ==
    /\ CanCall
    /\ \E i \in Ids, j \in Ids, op \in {"Add", "Div"} :
         ReturnFresh("ApplyOp", i, j, op, ApplyOp(Value(i), Value(j), op))
    /\ ShapeFrame

ScalarCall(op) ==
    /\ CanCall
    /\ \E i \in Ids, b \in FScalars : ReturnFresh(op, i, 0, b, ScalarOp(op, Value(i), b))
    /\ ShapeFrame

CallAddScalar == ScalarCall("AddScalar")
CallSubScalar == ScalarCall("SubScalar")
CallMulScalar == ScalarCall("MulScalar")
CallDivScalar == ScalarCall("DivScalar")

UnaryCall(op) ==
    /\ CanCall
    /\ \E i \in Ids : ReturnFresh(op, i, 0, <<>>, UnaryOp(op, Value(i)))
    /\ ShapeFrame

CallAbs     == UnaryCall("Abs")
CallNeg     == UnaryCall("Neg")
CallSqrt    == UnaryCall("Sqrt")
CallCumSum  == UnaryCall("CumSum")
CallCumProd == UnaryCall("CumProd")
CallRound   == UnaryCall("Round")
CallFloor   == UnaryCall("Floor")
CallCeil    == UnaryCall("Ceil")

CompareCall(op) ==
    /\ CanCall
    /\ \E i \in Ids, j \in Ids :
         ReturnFresh(op, i, j, <<>>, CompareOp(op, Value(i), Value(j)))
    /\ ShapeFrame

CallEq  == CompareCall("Eq")
CallNeq == CompareCall("Neq")
CallLt  == CompareCall("Lt")
CallLte == CompareCall("Lte")
CallGt  == CompareCall("Gt")
CallGte == CompareCall("Gte")

LogicalCall(op) ==
    /\ CanCall
    /\ \E i \in Ids, j \in Ids :
         ReturnFresh(op, i, j, <<>>, LogicalOp(op, Value(i), Value(j)))
    /\ ShapeFrame

CallAnd == LogicalCall("And")
CallOr  == LogicalCall("Or")
CallXor == LogicalCall("Xor")

CallNot ==
    /\ CanCall
    /\ \E i \in Ids : ReturnFresh("Not", i, 0, <<>>, Not(Value(i)))
    /\ ShapeFrame

CallAny ==
    /\ CanCall
    /\ \E i \in Ids : ReturnValue("Any", i, <<>>, AnyAll("Any", Value(i)))
    /\ ShapeFrame

CallAll ==
    /\ CanCall
    /\ \E i \in Ids : ReturnValue("All", i, <<>>, AnyAll("All", Value(i)))
    /\ ShapeFrame

CallInsertAxis ==
    /\ CanCall
    /\ \E i \in Ids, pos \in FPositions :
         ReturnSharing("InsertAxis", i, pos, InsertAxis(Value(i), pos))
    /\ ShapeFrame

\* Reshape overwrites the receiver's shape and returns the receiver, or
\* returns nil
ReturnReshape(i, shape) ==
    /\ pre' = Snapshot
    /\ IF ReshapeAccepts(Value(i), shape)
       THEN /\ heap' = [heap EXCEPT ![i].shape = shape]
            /\ call' = CallRecord("Reshape", i, 0, shape, Ok(shape, "", "", <<>>), i)
       ELSE /\ UNCHANGED heap
            /\ call' = CallRecord("Reshape", i, 0, shape, Err("nil"), 0)
    /\ UNCHANGED bufs

CallReshape ==
    /\ CanCall
    /\ \E i \in Ids, shape \in FShapes : ReturnReshape(i, shape)
    /\ ShapeFrame

\* ApplyHadamardOp stores a new []float64 in a Float32 array and retags
\* it; it overwrites the slice of any other array
ReturnHadamard(i, f) ==
    LET r == ApplyHadamardOp(Value(i), f)
    IN  /\ pre' = Snapshot
        /\ IF r.st # "ok" THEN UNCHANGED <<heap, bufs>>
           ELSE IF heap[i].dtype = "Float32"
           THEN /\ bufs' = Append(bufs, [ty |-> r.ty, el |-> r.el])
                /\ heap' = [heap EXCEPT ![i].data = Len(bufs) + 1,
                                        ![i].dtype = "Float64"]
           ELSE /\ bufs' = [bufs EXCEPT ![heap[i].data].el = r.el]
                /\ UNCHANGED heap
        /\ call' = CallRecord("ApplyHadamardOp", i, 0, f, r, 0)

CallApplyHadamardOp ==
    /\ CanCall
    /\ \E i \in Ids, f \in FFunctions : ReturnHadamard(i, f)
    /\ ShapeFrame

BinaryInplaceCall(op) ==
    /\ CanCall
    /\ \E i \in Ids, j \in Ids :
         ReturnInplace(op, i, j, <<>>, BinaryInplace(op, Value(i), Value(j)))
    /\ ShapeFrame

CallAdd_Inplace      == BinaryInplaceCall("Add_Inplace")
CallSubtract_Inplace == BinaryInplaceCall("Subtract_Inplace")
CallMultiply_Inplace == BinaryInplaceCall("Multiply_Inplace")
CallDivide_Inplace   == BinaryInplaceCall("Divide_Inplace")

ScalarInplaceCall(op) ==
    /\ CanCall
    /\ \E i \in Ids, b \in FScalars :
         ReturnInplace(op, i, 0, b, ScalarInplace(op, Value(i), b))
    /\ ShapeFrame

CallAddScalar_Inplace == ScalarInplaceCall("AddScalar_Inplace")
CallSubScalar_Inplace == ScalarInplaceCall("SubScalar_Inplace")
CallMulScalar_Inplace == ScalarInplaceCall("MulScalar_Inplace")
CallDivScalar_Inplace == ScalarInplaceCall("DivScalar_Inplace")

UnaryInplaceCall(op) ==
    /\ CanCall
    /\ \E i \in Ids : ReturnInplace(op, i, 0, <<>>, UnaryInplace(op, Value(i)))
    /\ ShapeFrame

CallAbs_Inplace     == UnaryInplaceCall("Abs_Inplace")
CallNeg_Inplace     == UnaryInplaceCall("Neg_Inplace")
CallSqrt_Inplace    == UnaryInplaceCall("Sqrt_Inplace")
CallRound_Inplace   == UnaryInplaceCall("Round_Inplace")
CallFloor_Inplace   == UnaryInplaceCall("Floor_Inplace")
CallCeil_Inplace    == UnaryInplaceCall("Ceil_Inplace")
CallCumSum_Inplace  == UnaryInplaceCall("CumSum_Inplace")
CallCumProd_Inplace == UnaryInplaceCall("CumProd_Inplace")

Next ==
    \/ CallNewNdArray \/ CallZeros
    \/ CallAdd \/ CallSubtract \/ CallMultiply \/ CallDivide \/ CallApplyOp
    \/ CallAddScalar \/ CallSubScalar \/ CallMulScalar \/ CallDivScalar
    \/ CallAbs \/ CallNeg \/ CallSqrt \/ CallCumSum \/ CallCumProd
    \/ CallRound \/ CallFloor \/ CallCeil
    \/ CallEq \/ CallNeq \/ CallLt \/ CallLte \/ CallGt \/ CallGte
    \/ CallAnd \/ CallOr \/ CallXor \/ CallNot \/ CallAny \/ CallAll
    \/ CallInsertAxis \/ CallReshape \/ CallApplyHadamardOp
    \/ CallAdd_Inplace \/ CallSubtract_Inplace \/ CallMultiply_Inplace
    \/ CallDivide_Inplace
    \/ CallAddScalar_Inplace \/ CallSubScalar_Inplace \/ CallMulScalar_Inplace
    \/ CallDivScalar_Inplace
    \/ CallAbs_Inplace \/ CallNeg_Inplace \/ CallSqrt_Inplace \/ CallRound_Inplace
    \/ CallFloor_Inplace \/ CallCeil_Inplace \/ CallCumSum_Inplace
    \/ CallCumProd_Inplace

Spec == Init /\ [][Next]_vars

--------------------------------------------------------------------------
(* Specification SpecLogic: one comparison or logical operation on a pair  *)
(* of arrays, and Not, Any and All on the arrays there are, LMaxCalls      *)
(* calls in all.                                                           *)

\* n elements, all 2 (for bool: all true)
Flat(ty, n) == [k \in 1..n |-> IF ty = "bool" THEN 1 ELSE 2 * One(ty)]

\* the shapes of the comparison scenario ([4]) and of the in-place
\* scenario ([2,2] and [1,2]), and shapes of total size 1
LShapes == { <<>>, <<1>>, <<4>>, <<2, 2>>, <<1, 2>> }

\* the arrays NewNdArray builds from data 1, 2, 3, ... and 2, 2, 2, ...
LOperands ==
    UNION { { [shape |-> sh, ty |-> ty, el |-> Ramp(ty, ProdInt(sh), 1)],
              [shape |-> sh, ty |-> ty, el |-> Flat(ty, ProdInt(sh))] } :
            sh \in LShapes, ty \in {"f64", "f32", "bool"} }

LogicInit ==
    /\ \E x \in LOperands, y \in LOperands :
         /\ heap = << [shape |-> x.shape, data |-> 1, dtype |-> DTypeOf(x.ty)],
                      [shape |-> y.shape, data |-> 2, dtype |-> DTypeOf(y.ty)] >>
         /\ bufs = << [ty |-> x.ty, el |-> x.el], [ty |-> y.ty, el |-> y.el] >>
    /\ call = NoCallYet
    /\ pre = Snapshot
    /\ sh1 = <<>> /\ sh2 = <<>> /\ bs = NoCall

ComparePair(op) ==
    /\ call.n = 0
    /\ ReturnFresh(op, 1, 2, <<>>, CompareOp(op, Value(1), Value(2)))
    /\ ShapeFrame

EqPair  == ComparePair("Eq")
NeqPair == ComparePair("Neq")
LtPair  == ComparePair("Lt")
LtePair == ComparePair("Lte")
GtPair  == ComparePair("Gt")
GtePair == ComparePair("Gte")

LogicalPair(op) ==
    /\ call.n = 0
    /\ ReturnFresh(op, 1, 2, <<>>, LogicalOp(op, Value(1), Value(2)))
    /\ ShapeFrame

AndPair == LogicalPair("And")
OrPair  == LogicalPair("Or")
XorPair == LogicalPair("Xor")

NotOne ==
    /\ call.n < LMaxCalls
    /\ \E i \in Ids : ReturnFresh("Not", i, 0, <<>>, Not(Value(i)))
    /\ ShapeFrame

AnyOne ==
    /\ call.n < LMaxCalls
    /\ \E i \in Ids : ReturnValue("Any", i, <<>>, AnyAll("Any", Value(i)))
    /\ ShapeFrame

AllOne ==
    /\ call.n < LMaxCalls
    /\ \E i \in Ids : ReturnValue("All", i, <<>>, AnyAll("All", Value(i)))
    /\ ShapeFrame

LogicNext ==
    \/ EqPair \/ NeqPair \/ LtPair \/ LtePair \/ GtPair \/ GtePair
    \/ AndPair \/ OrPair \/ XorPair
    \/ NotOne \/ AnyOne \/ AllOne

SpecLogic == LogicInit /\ [][LogicNext]_vars

--------------------------------------------------------------------------
(* Specification SpecInplace: IMaxCalls calls, each a binary in-place      *)
(* operation of one of the two arrays with one of the two as operand (the  *)
(* receiver itself included), or ApplyHadamardOp on one of the two.        *)

InplacePair(op) ==
    /\ call.n < IMaxCalls
    /\ \E i \in Ids, j \in Ids :
         ReturnInplace(op, i, j, <<>>, BinaryInplace(op, Value(i), Value(j)))
    /\ ShapeFrame

Add_InplacePair      == InplacePair("Add_Inplace")
Subtract_InplacePair == InplacePair("Subtract_Inplace")
Multiply_InplacePair == InplacePair("Multiply_Inplace")
Divide_InplacePair   == InplacePair("Divide_Inplace")

ApplyHadamardOpOne ==
    /\ call.n < IMaxCalls
    /\ \E i \in Ids, f \in FFunctions : ReturnHadamard(i, f)
    /\ ShapeFrame

InplaceNext ==
    \/ Add_InplacePair \/ Subtract_InplacePair \/ Multiply_InplacePair
    \/ Divide_InplacePair \/ ApplyHadamardOpOne

SpecInplace == LogicInit /\ [][InplaceNext]_vars

--------------------------------------------------------------------------
(* Specification SpecReshape: RMaxCalls calls of Reshape on one array.     *)
(* The array is the first of the heap; the second is a copy of it with a   *)
(* slice of its own, which no call touches: the array as it was made.      *)

RShapes ==
    {<<>>} \cup { <<d>> : d \in 0..(RMaxDim * RMaxDim) }
           \cup { <<d, e>> : d \in 0..RMaxDim, e \in 0..RMaxDim }
           \cup { <<1, RMaxDim, RMaxDim>> }

ReshapeInit ==
    /\ \E sh \in RShapes, ty \in {"f64", "f32", "bool"} :
         /\ heap = << [shape |-> sh, data |-> 1, dtype |-> DTypeOf(ty)],
                      [shape |-> sh, data |-> 2, dtype |-> DTypeOf(ty)] >>
         /\ bufs = << [ty |-> ty, el |-> Ramp(ty, ProdInt(sh), 1)],
                      [ty |-> ty, el |-> Ramp(ty, ProdInt(sh), 1)] >>
    /\ call = NoCallYet
    /\ pre = Snapshot
    /\ sh1 = <<>> /\ sh2 = <<>> /\ bs = NoCall

ReshapeFirst ==
    /\ call.n < RMaxCalls
    /\ \E shape \in RShapes : ReturnReshape(1, shape)
    /\ ShapeFrame

ReshapeNext == ReshapeFirst

SpecReshape == ReshapeInit /\ [][ReshapeNext]_vars

--------------------------------------------------------------------------
(* Specification SpecNew: NCalls calls of NewNdArray with data of every    *)
(* type and of every length up to NMaxLen, matching the shape or not.      *)

CallNewNdArrayAny ==
    /\ call.n < NCalls
    /\ \E shape \in AShapes, ty \in FTypes, n \in 0..NMaxLen :
         ReturnFresh("NewNdArray", 0, 0,
                     [shape |-> shape, ty |-> ty, el |-> Ramp(ty, n, 1)],
                     NewNdArray(shape, ty, Ramp(ty, n, 1)))
    /\ ShapeFrame

NewNext == CallNewNdArrayAny

SpecNew == Init /\ [][NewNext]_vars

--------------------------------------------------------------------------
(* Claims about broadcastShapes, checked under SpecShape *)

\* shape right-aligned to rank n: missing leading dimensions count as 1
PadLeft(shape, n) ==
    [k \in 1..n |-> IF k <= n - Len(shape) THEN 1
                    ELSE shape[k - (n - Len(shape))]]

AlignedRank == Max(Len(sh1), Len(sh2))
Pad1 == PadLeft(sh1, AlignedRank)
Pad2 == PadLeft(sh2, AlignedRank)

\* C3: broadcastShapes returns an error exactly when some right-aligned pair
\* of dimensions differs with neither of the two equal to 1.
C3_ErrorExactlyOnClash ==
    bs.st # "none" =>
        ((bs.st = "err") <=>
            \E k \in 1..AlignedRank :
                Pad1[k] # Pad2[k] /\ Pad1[k] # 1 /\ Pad2[k] # 1)

C3_Witness ==
    /\ sh1 = <<2, 3>> /\ sh2 = <<4, 3>> /\ bs.st = "err"

\* C4: on success the result has rank max(rank(s1), rank(s2)) and at every
\* right-aligned position the dimension max(d1, d2).
C4_ResultIsAlignedMax ==
    bs.st = "ok" =>
        /\ Len(bs.shape) = AlignedRank
        /\ \A k \in 1..AlignedRank : bs.shape[k] = Max(Pad1[k], Pad2[k])

C4_Witness ==
    /\ sh1 = <<4, 1, 3>> /\ sh2 = <<1, 3>> /\ bs = [st |-> "ok", shape |-> <<4, 1, 3>>]

\* the non-1 value of a pair of dimensions, or 1 when both are 1
NonOneOf(d1, d2) == IF d1 # 1 THEN d1 ELSE IF d2 # 1 THEN d2 ELSE 1

\* C5: for accepted shapes of non-negative dimensions (zero included) every
\* aligned dimension of the result is the non-1 value of the pair, or 1 if
\* both are 1.
C5_ResultIsNonOneValue ==
    bs.st = "ok" =>
        \A k \in 1..AlignedRank : bs.shape[k] = NonOneOf(Pad1[k], Pad2[k])

\* C6: broadcastShapes is symmetric: with the arguments exchanged it fails
\* when it failed and returns the same shape when it succeeded.
C6_Symmetric ==
    bs.st # "none" => bs = broadcastShapes(sh2, sh1)

C6_Witness ==
    /\ bs.st = "ok" /\ Len(sh1) < Len(sh2) /\ sh1 # <<>>
    /\ \E k \in 1..AlignedRank : Pad1[k] # Pad2[k]

--------------------------------------------------------------------------
(* Claims about Add, Subtract, Multiply and Divide, checked under SpecArith *)

ArithOps == {"Add", "Sub", "Mul", "Div"}

\* the operands as they were when the call was made, and the array returned
OperandA == ValueIn(pre.heap, pre.bufs, call.a)
OperandB == ValueIn(pre.heap, pre.bufs, call.b)
Returned == Value(call.res)

Numeric(x) == x.dtype \in {"Float64", "Float32"}

\* right-aligned, every pair of dimensions is equal or has a 1
Compatible(s1, s2) ==
    LET n == Max(Len(s1), Len(s2))
    IN  \A k \in 1..n :
            \/ PadLeft(s1, n)[k] = PadLeft(s2, n)[k]
            \/ PadLeft(s1, n)[k] = 1
            \/ PadLeft(s2, n)[k] = 1

\* the elements of a numeric array as float64 values
ElementsAsF64(x) ==
    IF x.dtype = "Float32" THEN [k \in 1..Len(x.el) |-> Widen(x.el[k])] ELSE x.el

GeneralCase ==
    /\ call.op \in ArithOps
    /\ Numeric(OperandA) /\ Numeric(OperandB)
    /\ Compatible(OperandA.shape, OperandB.shape)
    /\ OperandA.shape # OperandB.shape
    /\ ProdInt(OperandA.shape) # 1 /\ ProdInt(OperandB.shape) # 1

\* the result the claim describes on the general path: element i is the
\* operation on the two operands' elements at the mapped offsets
IsBroadcastResult ==
    LET rs == broadcastShapes(OperandA.shape, OperandB.shape).shape
        ea == ElementsAsF64(OperandA)
        eb == ElementsAsF64(OperandB)
    IN  /\ call.st = "ok"
        /\ Returned.shape = rs
        /\ Len(Returned.el) = ProdInt(rs)
        /\ \A i \in 0..(ProdInt(rs) - 1) :
             LET ai == broadcastIndex(OperandA.shape, rs, i).v
                 bi == broadcastIndex(OperandB.shape, rs, i).v
             IN  /\ ai < Len(ea) /\ bi < Len(eb)
                 /\ Returned.el[i + 1] = Kernel("f64", call.op, ea[ai + 1], eb[bi + 1])

\* C7: on the general broadcast path (numeric operands, compatible shapes
\* that are neither equal nor of total size 1) the call returns an array of
\* shape broadcastShapes(shape(a), shape(b)) whose element i is op applied to
\* a and b at the offsets broadcastIndex gives for i.
C7_GeneralPathResult == GeneralCase => IsBroadcastResult

\* C7 restricted to operands without a zero-sized dimension
C7_HoldsWithoutZeroDims ==
    (/\ GeneralCase
     /\ \A k \in 1..Len(OperandA.shape) : OperandA.shape[k] > 0
     /\ \A k \in 1..Len(OperandB.shape) : OperandB.shape[k] > 0)
    => IsBroadcastResult

C7_Scenario ==
    /\ call.op = "Add" /\ call.st = "ok"
    /\ OperandA.shape = <<2, 3>> /\ OperandA.el = Ramp("f64", 6, 1)
    /\ OperandB.shape = <<3>> /\ OperandB.el = Ramp("f64", 3, 1)
    /\ Returned.shape = <<2, 3>>
    /\ Returned.el = [k \in 1..6 |-> <<2, 4, 6, 5, 7, 9>>[k] * F64One]

ScalarCase ==
    /\ call.op \in ArithOps
    /\ Numeric(OperandA) /\ Numeric(OperandB)
    /\ OperandA.shape # OperandB.shape
    /\ (ProdInt(OperandA.shape) = 1 \/ ProdInt(OperandB.shape) = 1)

\* op on one element x of the other operand and the scalar s, in the
\* operands' order; with the scalar first, a / b is taken in the reciprocal
\* form a * (1 / b) of the scalar path
ScalarApplied(ty, op, x, s, scalarFirst) ==
    IF ~scalarFirst THEN Kernel(ty, op, x, s)
    ELSE IF op = "Div" THEN fMul(ty, fDiv(ty, One(ty), x), s)
    ELSE Kernel(ty, op, s, x)

\* the result is the other operand's shape, op applied to each of its
\* elements and the single element of the scalar operand
IsScalarResult(other, scalar, scalarFirst) ==
    LET both32 == other.dtype = "Float32" /\ scalar.dtype = "Float32"
        ty     == IF both32 THEN "f32" ELSE "f64"
        eo     == IF both32 THEN other.el ELSE ElementsAsF64(other)
        es     == IF both32 THEN scalar.el ELSE ElementsAsF64(scalar)
    IN  /\ call.st = "ok"
        /\ Returned.shape = other.shape
        /\ Len(Returned.el) = Len(eo)
        /\ \A k \in 1..Len(eo) :
             Returned.el[k] = ScalarApplied(ty, call.op, eo[k], es[1], scalarFirst)

\* C8: when the shapes differ and one operand has total size 1, whatever
\* its rank, the result has the other operand's shape and element i is op
\* applied, in the operands' order, to the other operand's element i and
\* the single element of the size-1 operand.
C8_ScalarPathResult ==
    ScalarCase =>
        \/ ProdInt(OperandB.shape) = 1 /\ IsScalarResult(OperandA, OperandB, FALSE)
        \/ ProdInt(OperandA.shape) = 1 /\ IsScalarResult(OperandB, OperandA, TRUE)

\* C8 restricted to a size-1 operand of shape [1]
C8_HoldsForRankOneScalar ==
    (/\ ScalarCase
     /\ (ProdInt(OperandB.shape) = 1 => OperandB.shape = <<1>>)
     /\ (ProdInt(OperandB.shape) # 1 => OperandA.shape = <<1>>))
    => \/ ProdInt(OperandB.shape) = 1 /\ IsScalarResult(OperandA, OperandB, FALSE)
       \/ ProdInt(OperandA.shape) = 1 /\ IsScalarResult(OperandB, OperandA, TRUE)

\* C9: for numeric operands whose shapes are not broadcast-compatible the
\* call returns an error and no array, and the heap is as it was.
C9_IncompatibleShapesFail ==
    (/\ call.op \in ArithOps
     /\ Numeric(OperandA) /\ Numeric(OperandB)
     /\ ~Compatible(OperandA.shape, OperandB.shape))
    => /\ call.st = "err"
       /\ call.res = 0
       /\ heap = pre.heap
       /\ bufs = pre.bufs

C9_Witness ==
    /\ call.op \in ArithOps /\ call.st = "err"
    /\ Numeric(OperandA) /\ Numeric(OperandB)
    /\ OperandA.shape = <<2, 3>> /\ OperandB.shape = <<4, 3>>

\* a numeric array converted to Float64, element by element
AsFloat64Array(x) ==
    [shape |-> x.shape, dtype |-> "Float64", ty |-> "f64", el |-> ElementsAsF64(x)]

\* C10: on numeric operands of compatible shapes of which one at least is
\* Float64, a result is Float64 on every path, and it is the result of the
\* same call on the operands widened to Float64 beforehand.
C10_Float64Promotion ==
    (/\ call.op \in ArithOps
     /\ call.st = "ok"
     /\ Numeric(OperandA) /\ Numeric(OperandB)
     /\ Compatible(OperandA.shape, OperandB.shape)
     /\ (OperandA.dtype = "Float64" \/ OperandB.dtype = "Float64"))
    => /\ Returned.dtype = "Float64"
       /\ Returned.ty = "f64"
       /\ LET w == Arith(call.op, AsFloat64Array(OperandA), AsFloat64Array(OperandB))
          IN  w.st = "ok" /\ Returned.shape = w.shape /\ Returned.el = w.el

\* a mixed call on the general path: float32 [1..6] of shape [2,3] times
\* float64 [1,2,3]
C10_Witness ==
    /\ call.op = "Mul" /\ call.st = "ok"
    /\ OperandA.dtype = "Float32" /\ OperandB.dtype = "Float64"
    /\ OperandA.shape = <<2, 3>> /\ OperandB.shape = <<3>>
    /\ OperandA.el = Ramp("f32", 6, 1) /\ OperandB.el = Ramp("f64", 3, 1)
    /\ Returned.dtype = "Float64"
    /\ Returned.el = [k \in 1..6 |-> <<1, 4, 9, 4, 10, 18>>[k] * F64One]

--------------------------------------------------------------------------
(* Claims about the arrays that exist, checked under Spec *)

BufferOf(i) == bufs[heap[i].data]

\* C1: after any sequence of public operations every array that exists has
\* a buffer of as many elements as the product of its shape.
C1_LenIsProduct ==
    \A i \in Ids : Len(BufferOf(i).el) = ProdInt(heap[i].shape)

\* an array reshaped while another array, made by InsertAxis, points to the
\* same buffer
C1_Witness ==
    /\ call.op = "Reshape" /\ call.st = "ok"
    /\ heap[call.a].shape # pre.heap[call.a].shape
    /\ \E j \in Ids : j # call.a /\ heap[j].data = heap[call.a].data
    /\ Len(BufferOf(call.a).el) = 2

--------------------------------------------------------------------------
(* Claims about NewNdArray, checked under SpecNew *)

\* C2: NewNdArray returns an error and no array when the length of the data
\* is not the product of the shape or the data is of an unsupported type;
\* otherwise it returns a new array with the given shape, the given data
\* and the dtype of the data's element type.
C2_NewNdArrayChecksLength ==
    call.op = "NewNdArray" =>
        IF \/ call.arg.ty \notin {"f64", "f32", "bool"}
           \/ Len(call.arg.el) # ProdInt(call.arg.shape)
        THEN /\ call.st = "err" /\ call.res = 0
             /\ heap = pre.heap /\ bufs = pre.bufs
        ELSE /\ call.st = "ok" /\ call.res = Len(pre.heap) + 1
             /\ Len(heap) = Len(pre.heap) + 1
             /\ heap[call.res].shape = call.arg.shape
             /\ heap[call.res].dtype = DTypeOf(call.arg.ty)
             /\ BufferOf(call.res) = [ty |-> call.arg.ty, el |-> call.arg.el]

\* the test's array of shape [2,3] is made, then []bool data one element
\* too long for [2,2] is refused
C2_Witness ==
    /\ call.n = 2 /\ call.op = "NewNdArray" /\ call.st = "err"
    /\ call.arg.ty = "bool" /\ call.arg.shape = <<2, 2>> /\ Len(call.arg.el) = 5
    /\ Len(heap) = 1
    /\ heap[1].shape = <<2, 3>> /\ BufferOf(1).el = Ramp("f64", 6, 1)

--------------------------------------------------------------------------
(* Claims about Bool operands of the arithmetic, checked under SpecArith *)

BoolWithNumeric ==
    /\ call.op \in ArithOps
    /\ \/ OperandA.dtype = "Bool" /\ Numeric(OperandB)
       \/ Numeric(OperandA) /\ OperandB.dtype = "Bool"
    /\ Compatible(OperandA.shape, OperandB.shape)

\* C11: Add, Subtract, Multiply and Divide on one Bool and one numeric
\* operand of compatible shapes return an error value and no array; they do
\* not panic.
C11_BoolNumericIsError ==
    BoolWithNumeric => call.st = "err" /\ call.res = 0

\* the calls that panic, and those that return an array as if the Bool
\* operand held 0
C11_Panics == BoolWithNumeric /\ call.st = "panic"
C11_SilentZero ==
    /\ BoolWithNumeric /\ call.st = "ok"
    /\ OperandB.dtype = "Bool" /\ ProdInt(OperandB.shape) = 1
    /\ Len(OperandB.shape) # 1

--------------------------------------------------------------------------
(* Claims about comparisons and logical operations, checked under         *)
(* SpecLogic                                                               *)

CompareOps == {"Eq", "Neq", "Lt", "Lte", "Gt", "Gte"}
LogicalOps == {"And", "Or", "Xor"}

\* the comparison op of two numbers (units of float64), as 1 or 0
Holds(op, x, y) ==
    BoolEl(CASE op = "Eq"  -> x = y
             [] op = "Neq" -> x # y
             [] op = "Lt"  -> x < y
             [] op = "Lte" -> x <= y
             [] op = "Gt"  -> x > y
             [] op = "Gte" -> x >= y)

\* C12: on two numeric arrays of equal shape each comparison returns a
\* Bool array of that shape whose element i is the comparison of a[i] with
\* b[i].
C12_ElementwiseComparison ==
    (/\ call.op \in CompareOps
     /\ Numeric(OperandA) /\ Numeric(OperandB)
     /\ OperandA.shape = OperandB.shape)
    => /\ call.st = "ok"
       /\ Returned.dtype = "Bool" /\ Returned.ty = "bool"
       /\ Returned.shape = OperandA.shape
       /\ Len(Returned.el) = Len(OperandA.el)
       /\ \A k \in 1..Len(OperandA.el) :
            Returned.el[k] = Holds(call.op, ElementsAsF64(OperandA)[k],
                                            ElementsAsF64(OperandB)[k])

\* Lt([1,2,3,4], [2,2,2,2]) has given [true,false,false,false], and Any()
\* on it returns true
C12_Witness ==
    /\ call.n = 2 /\ call.op = "Any" /\ call.st = "ok" /\ call.out = <<1>>
    /\ call.a = 3
    /\ Value(1).el = Ramp("f64", 4, 1) /\ Value(2).el = Flat("f64", 4)
    /\ Value(1).shape = <<4>> /\ Value(2).shape = <<4>>
    /\ Value(3).el = <<1, 0, 0, 0>> /\ Value(3).dtype = "Bool"
    /\ Value(3).shape = <<4>>

\* C13: Eq, Neq, Lt, Lte, Gt, Gte, And, Or and Xor on operands whose shapes
\* are not exactly equal return the shape error and no array, whatever the
\* dtypes, also for compatible shapes and for an operand of total size 1.
C13_UnequalShapesFail ==
    (/\ call.op \in CompareOps \cup LogicalOps
     /\ OperandA.shape # OperandB.shape)
    => /\ call.st = "err"
       /\ call.why = "broadcasting not yet supported for boolean ops"
       /\ call.res = 0
       /\ heap = pre.heap /\ bufs = pre.bufs

\* And on a Float64 array of shape [2,2] and a Bool array of shape [1,2]:
\* compatible shapes and a dtype And refuses, and the error is the shape's
C13_Witness ==
    /\ call.op = "And" /\ call.st = "err"
    /\ call.why = "broadcasting not yet supported for boolean ops"
    /\ OperandA.shape = <<2, 2>> /\ OperandB.shape = <<1, 2>>
    /\ OperandA.dtype = "Float64" /\ OperandB.dtype = "Bool"

EqualShapeComparison ==
    /\ call.op \in CompareOps
    /\ OperandA.shape = OperandB.shape

TypeMismatch ==
    /\ call.st = "err"
    /\ call.why = "cannot compare boolean with numeric type"
    /\ call.res = 0

\* C14 as stated: for equal shapes each of the six comparisons returns a
\* type-mismatch error whenever at least one operand is Bool, also when
\* both are.
C14_AnyBoolIsError ==
    (/\ EqualShapeComparison
     /\ (OperandA.dtype = "Bool" \/ OperandB.dtype = "Bool"))
    => TypeMismatch

\* C14 amended: for equal shapes, Lt, Lte, Gt and Gte return the
\* type-mismatch error whenever at least one operand is Bool; Eq and Neq
\* return it whenever exactly one operand is Bool, and on two Bool arrays
\* they return the Bool array of the elements' equality or inequality.
C14_BoolComparison ==
    (/\ EqualShapeComparison
     /\ (OperandA.dtype = "Bool" \/ OperandB.dtype = "Bool"))
    => IF call.op \in {"Eq", "Neq"} /\ OperandA.dtype = OperandB.dtype
       THEN /\ call.st = "ok"
            /\ Returned.dtype = "Bool" /\ Returned.shape = OperandA.shape
            /\ Len(Returned.el) = Len(OperandA.el)
            /\ \A k \in 1..Len(OperandA.el) :
                 Returned.el[k] = Holds(call.op, OperandA.el[k], OperandB.el[k])
       ELSE TypeMismatch

\* Lt on two Bool arrays of shape [4] is refused
C14_Witness ==
    /\ call.op = "Lt" /\ TypeMismatch
    /\ OperandA.dtype = "Bool" /\ OperandB.dtype = "Bool"
    /\ OperandA.shape = <<4>> /\ OperandB.shape = <<4>>
    /\ OperandA.el # OperandB.el

\* a logical operation with an operand that is not Bool (And, Or and Xor
\* on equal shapes, where the dtypes decide)
LogicalOnNonBool ==
    \/ /\ call.op \in LogicalOps
       /\ OperandA.shape = OperandB.shape
       /\ (OperandA.dtype # "Bool" \/ OperandB.dtype # "Bool")
    \/ /\ call.op \in {"Not", "Any", "All"}
       /\ OperandA.dtype # "Bool"

\* C15: every logical operation (And, Or, Xor, Not, Any, All) on an array
\* that is not Bool returns an error to the caller: it does not panic and
\* it does not compute on the numeric data.
C15_NonBoolIsError ==
    LogicalOnNonBool => call.st = "err" /\ call.res = 0

\* C15 holds of And, Or and Xor
C15_HoldsForBinary ==
    (LogicalOnNonBool /\ call.op \in LogicalOps)
    => /\ call.st = "err" /\ call.res = 0
       /\ call.why = "logical operations require boolean arrays"

C15_NotPanics ==
    /\ call.op = "Not" /\ OperandA.dtype = "Float64" /\ call.st = "panic"

--------------------------------------------------------------------------
(* Claims about the in-place operations, checked under SpecInplace *)

BinaryInplaceOps ==
    {"Add_Inplace", "Subtract_Inplace", "Multiply_Inplace", "Divide_Inplace"}

\* the receiver's object and slice are what they were before the call
ReceiverUnchanged ==
    /\ heap[call.a] = pre.heap[call.a]
    /\ bufs[heap[call.a].data] = pre.bufs[pre.heap[call.a].data]

\* C16: a binary in-place operation with an operand whose shape is not
\* exactly the receiver's returns an error and leaves the receiver's
\* buffer, shape and dtype as they were.
C16_InplaceShapeMismatch ==
    (/\ call.op \in BinaryInplaceOps
     /\ OperandA.shape # OperandB.shape)
    => /\ call.st = "err"
       /\ call.why = "shapes must be equal for in-place operation"
       /\ ReceiverUnchanged
       /\ heap = pre.heap /\ bufs = pre.bufs

\* the receiver of shape [2,2] with data [1,2,3,4], the operand of shape
\* [1,2] with data [1,2]
C16_Witness ==
    /\ call.op = "Add_Inplace" /\ call.st = "err"
    /\ OperandA.shape = <<2, 2>> /\ OperandA.el = Ramp("f64", 4, 1)
    /\ OperandB.shape = <<1, 2>> /\ OperandB.el = Ramp("f64", 2, 1)
    /\ Value(1).el = Ramp("f64", 4, 1)

DtypesDiffer ==
    /\ call.op \in BinaryInplaceOps
    /\ OperandA.shape = OperandB.shape
    /\ Numeric(OperandA) /\ Numeric(OperandB)
    /\ OperandA.dtype # OperandB.dtype

\* C17: for equal shapes, a binary in-place operation whose receiver and
\* operand differ in dtype (Float32 with Float64 or Float64 with Float32)
\* returns a type-mismatch error and leaves the receiver as it was.
C17_InplaceDtypeMismatch ==
    DtypesDiffer => call.st = "err" /\ ReceiverUnchanged

\* C17 holds of a Float32 receiver
C17_HoldsForFloat32Receiver ==
    (DtypesDiffer /\ OperandA.dtype = "Float32")
    => /\ call.st = "err" /\ ReceiverUnchanged
       /\ call.why = "cannot operate on Float32 with Float64 in-place"

\* a Float64 receiver [1,2,3,4] takes the Float32 operand [2,2,2,2]
C17_Float64ReceiverWidens ==
    /\ call.op = "Add_Inplace" /\ call.st = "ok"
    /\ OperandA.dtype = "Float64" /\ OperandB.dtype = "Float32"
    /\ OperandA.el = Ramp("f64", 4, 1) /\ OperandB.el = Flat("f32", 4)
    /\ Value(call.a).el = Ramp("f64", 4, 3)

\* C18: after ApplyHadamardOp(op) on a numeric array the array is Float64,
\* with the shape and the number of elements it had, and element i is op
\* of the old element i as a float64; a Float32 array has a new []float64
\* and its old slice is as it was, a Float64 array keeps its slice.
C18_HadamardPromotes ==
    (call.op = "ApplyHadamardOp" /\ Numeric(OperandA))
    => /\ call.st = "ok"
       /\ Value(call.a).dtype = "Float64" /\ Value(call.a).ty = "f64"
       /\ Value(call.a).shape = OperandA.shape
       /\ Len(Value(call.a).el) = Len(OperandA.el)
       /\ \A k \in 1..Len(OperandA.el) :
            Value(call.a).el[k] = HadamardFn(call.arg, ElementsAsF64(OperandA)[k])
       /\ IF OperandA.dtype = "Float32"
          THEN /\ heap[call.a].data = Len(pre.bufs) + 1
               /\ bufs[pre.heap[call.a].data] = pre.bufs[pre.heap[call.a].data]
          ELSE heap[call.a].data = pre.heap[call.a].data

\* the Float32 array [1,2,3,4] squared is the Float64 array [1,4,9,16]
C18_Witness ==
    /\ call.op = "ApplyHadamardOp" /\ call.arg = "square" /\ call.st = "ok"
    /\ OperandA.dtype = "Float32" /\ OperandA.el = Ramp("f32", 4, 1)
    /\ Value(call.a).dtype = "Float64"
    /\ Value(call.a).el = [k \in 1..4 |-> <<1, 4, 9, 16>>[k] * F64One]

--------------------------------------------------------------------------
(* Claims about ownership and shapes, checked under Spec *)

\* the operations that are not in-place and return an array computed from
\* array operands
ComputingOps ==
    ArithOps \cup CompareOps \cup LogicalOps \cup
    {"ApplyOp", "Not",
     "AddScalar", "SubScalar", "MulScalar", "DivScalar",
     "Abs", "Neg", "Sqrt", "CumSum", "CumProd", "Round", "Floor", "Ceil"}

\* the arrays the last call was given
OperandIds == {call.a, call.b} \ {0}

\* the array returned is a new object whose slice no operand points to
ResultOwnsItsBuffer ==
    /\ call.res > Len(pre.heap)
    /\ \A i \in OperandIds : heap[call.res].data # pre.heap[i].data

\* C19: every operation that is not in-place and returns an array returns
\* one whose buffer is not shared with any operand, so that no in-place
\* operation on the one changes the elements of the other.
C19_ResultNotShared ==
    (/\ call.op \in ComputingOps \cup {"InsertAxis", "Reshape"}
     /\ call.st = "ok" /\ call.res # 0)
    => ResultOwnsItsBuffer

\* C19 holds of the operations that compute their result
C19_HoldsForComputed ==
    (call.op \in ComputingOps /\ call.st = "ok" /\ call.res # 0)
    => ResultOwnsItsBuffer

\* an in-place operation on one array has changed the elements seen
\* through another
C19_AliasObserved ==
    /\ call.op \in {"Neg_Inplace", "AddScalar_Inplace"} /\ call.st = "ok"
    /\ \E j \in 1..Len(pre.heap) :
         /\ j # call.a
         /\ Value(j).el # ValueIn(pre.heap, pre.bufs, j).el

\* C20: no operation changes the shape seen through an array that exists:
\* after any call every array that existed has the shape it had.
C20_ShapesImmutable ==
    \A i \in 1..Len(pre.heap) : heap[i].shape = pre.heap[i].shape

\* C20 holds of every operation but Reshape
C20_HoldsButForReshape ==
    call.op # "Reshape" => C20_ShapesImmutable

C20_ReshapeMutates ==
    /\ call.op = "Reshape" /\ call.st = "ok" /\ call.res = call.a
    /\ pre.heap[call.a].shape = <<2>> /\ heap[call.a].shape = <<1, 2>>

--------------------------------------------------------------------------
(* Claims about Reshape, checked under SpecReshape *)

\* the array as it was made
Original == Value(2)

\* the last call reshapes to the original shape an array that an earlier
\* Reshape gave another shape s2
ReshapedBack ==
    /\ call.n = 2 /\ call.op = "Reshape" /\ call.a = 1
    /\ call.arg = Original.shape
    /\ pre.heap[1].shape # Original.shape

\* C21: Reshape(Reshape(a, s2), shape(a)), for any s2 of the same product,
\* yields an array with a's original shape whose buffer holds a's original
\* elements in their order.
C21_ReshapeRoundTrip ==
    ReshapedBack
    => /\ call.st = "ok" /\ call.res # 0
       /\ Value(call.res).shape = Original.shape
       /\ Value(call.res).el = Original.el
       /\ Value(call.res).dtype = Original.dtype

\* [1,2,3,4] of shape [2,2], reshaped to [4] and back
C21_Witness ==
    /\ ReshapedBack /\ call.st = "ok"
    /\ Original.shape = <<2, 2>> /\ Original.el = Ramp("f64", 4, 1)
    /\ pre.heap[1].shape = <<4>>
    /\ Value(call.res).shape = <<2, 2>>

--------------------------------------------------------------------------
(* Algebraic claims about the arithmetic operations, under SpecArith *)

\* MulScalar(Subtract(b, a), -1) on the operands of the call
NegatedReverse ==
    LET r == Subtract(OperandB, OperandA)
    IN  IF r.st = "ok" THEN ScalarOp("MulScalar", r, 0 - F64One) ELSE r

\* the call returned an array exactly if r is one, of the same shape and
\* with the same elements
SameArray(r) ==
    /\ (call.st = "ok") = (r.st = "ok")
    /\ call.st = "ok" => /\ Returned.shape = r.shape
                         /\ ElementsAsF64(Returned) = ElementsAsF64(r)

\* C22: for numeric operands of compatible shapes, on every dispatch path,
\* Subtract(a, b) and MulScalar(Subtract(b, a), -1) have the same shape and
\* the same elements.
C22_SubtractAntisymmetric ==
    (/\ call.op = "Sub"
     /\ Numeric(OperandA) /\ Numeric(OperandB)
     /\ Compatible(OperandA.shape, OperandB.shape))
    => SameArray(NegatedReverse)

\* neither operand is a single element under a shape other than [1]
NoHiddenScalar ==
    /\ ProdInt(OperandA.shape) = 1 => OperandA.shape = <<1>>
    /\ ProdInt(OperandB.shape) = 1 => OperandB.shape = <<1>>

\* C22 where both calls return and no operand is a scalar of rank other
\* than 1
C22_HoldsForRankOneScalar ==
    (/\ call.op = "Sub"
     /\ Numeric(OperandA) /\ Numeric(OperandB)
     /\ Compatible(OperandA.shape, OperandB.shape)
     /\ NoHiddenScalar)
    => SameArray(NegatedReverse)

--------------------------------------------------------------------------
(* Claims about broadcastIndex, checked under SpecShape *)

\* the arguments of the broadcastIndex call
SourceShape == call.arg[1]
ResultShape == call.arg[2]
FlatIndex == call.arg[3]

Positive(shape) == \A k \in 1..Len(shape) : shape[k] > 0

\* the coordinate of the flat index i along axis k of shape (row-major)
CoordOf(shape, i, k) ==
    (i \div ProdInt(SubSeq(shape, k + 1, Len(shape)))) % shape[k]

\* the row-major offset in source of the coordinates of i in result, every
\* axis whose left-padded source dimension is 1 pinned to 0, taken with the
\* strides of the left-padded source shape
PinnedOffset(source, result, i) ==
    LET n  == Len(result)
        ps == PadLeft(source, n)
        c(k) == IF ps[k] = 1 THEN 0 ELSE CoordOf(result, i, k)
        sum[k \in 0..n] ==
            IF k = 0 THEN 0
            ELSE sum[k - 1] + c(k) * ProdInt(SubSeq(ps, k + 1, n))
    IN  sum[n]

\* C23: for a source shape of positive dimensions, a result shape obtained
\* by broadcasting it against another shape and a flat index i below the
\* product of the result shape, broadcastIndex returns the row-major offset,
\* by the source's own strides, of the coordinates of i in the result shape
\* with every axis of source dimension 1 pinned to 0; when the two shapes
\* are the same it returns i.
C23_IndexIsPinnedOffset ==
    (call.op = "broadcastIndex" /\ Positive(SourceShape))
    => /\ call.st = "ok"
       /\ call.out = << PinnedOffset(SourceShape, ResultShape, FlatIndex) >>
       /\ SourceShape = ResultShape => call.out = << FlatIndex >>

\* index 4 of the result shape [2,3] is the coordinate (1,1), which is
\* (1,0) in the source shape [2,1]: offset 1
C23_Witness ==
    /\ call.op = "broadcastIndex"
    /\ SourceShape = <<2, 1>> /\ ResultShape = <<2, 3>> /\ FlatIndex = 4
    /\ call.out = <<1>>

\* C24: the rank-mismatch error of broadcastIndex is never met by Add,
\* Subtract, Multiply or Divide: whatever the operands, the shape that
\* ApplyOp hands to broadcastIndex has at least the rank of each operand,
\* and no call panics with that error.
C24_RankMismatchUnreachable ==
    call.op \in ArithOps
    => /\ call.why # RankMismatch
       /\ LET r == broadcastShapes(OperandA.shape, OperandB.shape)
          IN  r.st = "ok" => /\ Len(OperandA.shape) <= Len(r.shape)
                             /\ Len(OperandB.shape) <= Len(r.shape)
                             /\ \A i \in 0..(ProdInt(r.shape) - 1) :
                                  /\ broadcastIndex(OperandA.shape, r.shape, i).st # "err"
                                  /\ broadcastIndex(OperandB.shape, r.shape, i).st # "err"

\* a call on the general path with operands of ranks 1 and 2 returned
C24_Witness ==
    /\ GeneralCase /\ call.st = "ok"
    /\ Len(OperandA.shape) = 1 /\ Len(OperandB.shape) = 2
    /\ Len(Returned.shape) = 2 /\ Len(Returned.el) > 0

\* C25: for numeric operands of compatible shapes, zero-sized dimensions
\* included, Add, Subtract, Multiply and Divide read no element outside an
\* operand's buffer: the call returns a result and does not fail with an
\* out-of-range access.
C25_NoOutOfRangeRead ==
    (/\ call.op \in ArithOps
     /\ Numeric(OperandA) /\ Numeric(OperandB)
     /\ Compatible(OperandA.shape, OperandB.shape))
    => call.st = "ok" /\ call.why # "index out of range"

\* C25 restricted to operands without a zero-sized dimension
C25_HoldsWithoutZeroDims ==
    (/\ call.op \in ArithOps
     /\ Numeric(OperandA) /\ Numeric(OperandB)
     /\ Compatible(OperandA.shape, OperandB.shape)
     /\ Positive(OperandA.shape) /\ Positive(OperandB.shape))
    => call.st = "ok" /\ call.why # "index out of range"

\* an empty operand of shape [0,1] with one of shape [0]: the call panics
\* on the first read
C25_PanicsOnEmpty ==
    /\ call.op \in ArithOps
    /\ OperandA.shape = <<0, 1>> /\ OperandB.shape = <<0>>
    /\ call.st = "panic" /\ call.why = "index out of range"

\* C26: whenever Add, Subtract, Multiply or Divide returns an array on
\* numeric operands, on whichever of the three paths, the array's shape is
\* broadcastShapes(shape(a), shape(b)), also when the operands differ in
\* rank and one of them has a single element.
C26_ShapeIsBroadcastShape ==
    (/\ call.op \in ArithOps /\ call.st = "ok"
     /\ Numeric(OperandA) /\ Numeric(OperandB))
    => LET r == broadcastShapes(OperandA.shape, OperandB.shape)
       IN  r.st = "ok" /\ Returned.shape = r.shape

\* C26 where no operand has a zero-sized dimension and a single-element
\* operand of another shape has no larger rank than the other operand
C26_HoldsForScalarOfLowerRank ==
    (/\ call.op \in ArithOps /\ call.st = "ok"
     /\ Numeric(OperandA) /\ Numeric(OperandB)
     /\ Positive(OperandA.shape) /\ Positive(OperandB.shape)
     /\ (ProdInt(OperandB.shape) = 1
         => Len(OperandB.shape) <= Len(OperandA.shape))
     /\ (ProdInt(OperandB.shape) # 1 /\ ProdInt(OperandA.shape) = 1
         => Len(OperandA.shape) <= Len(OperandB.shape)))
    => LET r == broadcastShapes(OperandA.shape, OperandB.shape)
       IN  r.st = "ok" /\ Returned.shape = r.shape

\* shapes [2] and [1,1]: the result has shape [2], broadcastShapes gives
\* [1,2]
C26_ScalarPathKeepsRank ==
    /\ call.op \in ArithOps /\ call.st = "ok"
    /\ OperandA.shape = <<2>> /\ OperandB.shape = <<1, 1>>
    /\ Returned.shape = <<2>>
    /\ broadcastShapes(OperandA.shape, OperandB.shape).shape = <<1, 2>>

\* both operands are Float32, their shapes are compatible and the call
\* returned an array
BothFloat32 ==
    /\ call.op \in ArithOps /\ call.st = "ok"
    /\ OperandA.dtype = "Float32" /\ OperandB.dtype = "Float32"
    /\ Compatible(OperandA.shape, OperandB.shape)

\* the call went through ApplyOp: shapes differ and no operand has a
\* single element
GeneralPath ==
    /\ OperandA.shape # OperandB.shape
    /\ ProdInt(OperandA.shape) # 1 /\ ProdInt(OperandB.shape) # 1

\* C27 as stated: two Float32 operands of compatible shapes give a Float32
\* result on the equal-shape, the scalar and the general broadcast path.
C27_Float32OnEveryPath ==
    BothFloat32 => Returned.dtype = "Float32" /\ Returned.ty = "f32"

\* C27 (amended): two Float32 operands of compatible shapes give a Float32
\* result on the equal-shape path and on the scalar path, and a Float64
\* result on the general broadcast path.
C27_Float32UnlessGeneralPath ==
    BothFloat32 =>
        IF GeneralPath
        THEN Returned.dtype = "Float64" /\ Returned.ty = "f64"
        ELSE Returned.dtype = "Float32" /\ Returned.ty = "f32"

\* Float32 [2,3] with Float32 [3]: a Float64 result; the same pair of
\* kinds stays Float32 on the other paths
C27_Witness ==
    /\ BothFloat32 /\ GeneralPath
    /\ OperandA.shape = <<2, 3>> /\ OperandB.shape = <<3>>
    /\ Returned.dtype = "Float64" /\ Len(Returned.el) = 6

\* the same operation on the operands of the call in the other order
Swapped ==
    IF call.op = "Add" THEN Add(OperandB, OperandA)
    ELSE Multiply(OperandB, OperandA)

\* the call and r both failed, or both returned arrays of the same shape,
\* dtype and elements
SameOutcome(r) ==
    /\ (call.st = "ok") = (r.st = "ok")
    /\ call.st = "ok" => /\ Returned.shape = r.shape
                         /\ Returned.dtype = r.dtype
                         /\ Returned.el = r.el

\* C28: for all numeric operands a and b, Add(a, b) and Add(b, a), and
\* likewise Multiply, both fail or both return arrays of the same shape,
\* dtype and elements, also when both operands have a single element under
\* different ranks.
C28_Commutative ==
    (/\ call.op \in {"Add", "Mul"}
     /\ Numeric(OperandA) /\ Numeric(OperandB))
    => SameOutcome(Swapped)

\* C28 where no operand is a single element under a shape other than [1]
C28_HoldsForRankOneScalar ==
    (/\ call.op \in {"Add", "Mul"}
     /\ Numeric(OperandA) /\ Numeric(OperandB)
     /\ NoHiddenScalar)
    => SameOutcome(Swapped)

\* shapes [1] and [1,1]: the result has shape [1] one way and [1,1] the
\* other way
C28_OrderDecidesShape ==
    /\ call.op \in {"Add", "Mul"} /\ call.st = "ok"
    /\ OperandA.shape = <<1>> /\ OperandB.shape = <<1, 1>>
    /\ Returned.shape = <<1>>
    /\ Swapped.st = "ok" /\ Swapped.shape = <<1, 1>>
    /\ Returned.el # Swapped.el

--------------------------------------------------------------------------
(* Claims relating the in-place operations to the allocating ones, checked *)
(* under SpecInplace                                                       *)

\* a binary in-place operation on operands of equal shape and equal numeric
\* dtype returned nil
InplaceDone ==
    /\ call.op \in BinaryInplaceOps /\ call.st = "ok"
    /\ OperandA.shape = OperandB.shape
    /\ Numeric(OperandA) /\ OperandA.dtype = OperandB.dtype

\* the receiver holds the data of the allocating operation on the operands
\* as they were, in the slice, shape and dtype it had
RefinesAllocating ==
    LET r == CASE call.op = "Add_Inplace"      -> Add(OperandA, OperandB)
               [] call.op = "Subtract_Inplace" -> Subtract(OperandA, OperandB)
               [] call.op = "Multiply_Inplace" -> Multiply(OperandA, OperandB)
               [] call.op = "Divide_Inplace"   -> Divide(OperandA, OperandB)
    IN  /\ r.st = "ok"
        /\ Value(call.a).el = r.el
        /\ heap[call.a] = pre.heap[call.a]
        /\ Value(call.a).ty = OperandA.ty
        /\ Len(Value(call.a).el) = Len(OperandA.el)

\* the operand's Data is the receiver's
SharesBuffer == pre.heap[call.b].data = pre.heap[call.a].data

\* C29 as stated: after a binary in-place operation on operands of equal
\* shape and equal numeric dtype has returned nil, the receiver's buffer
\* holds the data of the allocating operation on the receiver as it was and
\* the operand, the receiver's shape, dtype and buffer length are as they
\* were, and the operand is unchanged.
C29_InplaceRefinesOperandKept ==
    InplaceDone => RefinesAllocating /\ Value(call.b) = OperandB

\* C29 (amended): the same, the operand being unchanged unless its buffer
\* is the receiver's (the operand is the receiver itself), and then it holds
\* the receiver's new data.
C29_InplaceRefines ==
    InplaceDone
    => /\ RefinesAllocating
       /\ heap[call.b] = pre.heap[call.b]
       /\ IF SharesBuffer THEN Value(call.b).el = Value(call.a).el
          ELSE Value(call.b) = OperandB

\* [1,2,3,4] less [2,2,2,2] in place: the receiver is [-1,0,1,2], the
\* operand is as it was
C29_Witness ==
    /\ InplaceDone /\ call.op = "Subtract_Inplace" /\ ~SharesBuffer
    /\ OperandA.el = Ramp("f64", 4, 1) /\ OperandB.el = Flat("f64", 4)
    /\ Value(call.a).el = Ramp("f64", 4, 0 - 1)
    /\ Value(call.b).el = Flat("f64", 4)

====
